---- MODULE Spec2Model ----
(***************************************************************************)
(* Trigger coordination of glscopeclient's OscilloscopeWindow: ArmTrigger, *)
(* OnStop, OnTimer, CheckForPendingWaveforms and DownloadWaveforms, run by *)
(* the GTK (UI) thread and the waveform processing thread against a set of *)
(* instruments.                                                            *)
(*                                                                         *)
(* Time is kept as elapsed seconds since the instants the code stores      *)
(* (GetTime() - m_tPrimaryTrigger, now - start), each saturated one above   *)
(* the threshold the code compares it with; Tick lets one second pass.     *)
(*                                                                         *)
(* Two further parts of the same class are modelled with their own          *)
(* specifications: RefreshAllFilters (FilterSpec: the leveling of the       *)
(* filter graph into blocks and the parallel evaluation of each block) and  *)
(* LoadWaveformDataForScope with its DoLoadWaveformDataForScope workers     *)
(* (CodecSpec, LoadSpec: the sparsev1 / densev1 decoding of one stream's    *)
(* bytes and the bulk-load wait loop).  Each specification leaves the       *)
(* variables of the other parts at rest.                                    *)
(***************************************************************************)
EXTENDS Integers, FiniteSets, Sequences, TLC

\* ------------------------------------------------------------------ bounds
MaxScopes == 2
MaxPending == 1
\* filter instances, inputs of one filter, leveling iterations followed on a
\* working set that no longer shrinks
MaxFilters == 3
MaxInputs == 2
MaxSpin == 2
\* samples of a waveform, streams of one saved waveform, bytes after the last
\* whole record of a body file
MaxLen == 2
MaxStreams == 2
MaxTrail == 4
MaxWaveforms == 4
MaxSaved == 2
MaxObjects == 4
MaxRecent == 11
MaxConnected == 11

\* --------------------------------------------------------- program constants
\* if( (now - start) > 3)
ArmTimeout == 3
\* if( (m_tPrimaryTrigger > 0) && ( twait > 1 ) )
FaultWindow == 1

Threads == {"ui", "proc"}
Kinds == {"NORMAL", "SINGLE", "FORCED"}
ArmCmds == {"Start", "StartSingleTrigger", "ForceTrigger"}
ScopeIds == 0 .. (MaxScopes - 1)

VARIABLES
    nScopes,              \* m_scopes.size()
    offline,              \* m_scopes[i]->IsOffline()
    scope,                \* the instruments: trigger state and pending queue
    m_triggerArmed,
    m_triggerOneShot,
    m_multiScopeFreeRun,
    twait,                \* GetTime() - m_tPrimaryTrigger; -1: m_tPrimaryTrigger < 0
    primaryAge,           \* seconds instrument 0 has had pending data; -1: none
    armpc,                \* per thread: where its ArmTrigger call stands
    armi,                 \* per thread: ArmTrigger's loop index i
    armType,              \* per thread: ArmTrigger's argument
    waited,               \* per thread: now - start of the arm-confirmation wait
    armCmd,               \* per thread: arm command issued to each instrument in this call
    armSeen,              \* per thread: secondaries that reported armed in this call
    uipc,                 \* UI thread: "ctor", "idle", "rearm" (inside OnTimer)
    procpc,               \* processing thread: "poll", "download", "signal", "block", "recover"
    waveformReady,        \* g_waveformReadyEvent
    waveformProcessed,    \* g_waveformProcessedEvent
    stopped               \* OnStop was the user's last request

\* RefreshAllFilters
VARIABLES
    nFilters,             \* Filter::GetAllInstances().size(); the instances are 1..nFilters
    inputs,               \* per filter: GetInput(i).m_channel, a filter or 0 (a scope channel)
    dirty,                \* filters whose SetDirty() has not been answered by an evaluation
    working,              \* the working set of the leveling loop
    blocks,               \* vector<FilterBlock>
    fpc,                  \* "idle", "level", "eval"
    cur,                  \* index of the block being evaluated
    started,              \* <<block, filter>>: RefreshIfDirty() invoked
    finished              \* <<block, filter>>: RefreshIfDirty() returned

\* LoadWaveformDataForScope / DoLoadWaveformDataForScope, one saved waveform
VARIABLES
    nStreams,             \* channels.size()
    stream,               \* per stream: the kind of its channel, its format tag, its body file
    lpc,                  \* loading thread: "setup", "wait", "join", "finished"
    wpc,                  \* per worker: "none", "open", "decode", "release", "progress", "exit",
                          \* "crashed" (in the decoding), "died" (in the last store)
    mapped,               \* per worker: it holds the body file's bytes (buf)
    cap,                  \* per stream: the waveform installed on the channel
    channel_done,
    channel_progress,
    acquired,             \* per worker: successful open() and mmap() calls
    released,             \* per worker: close() and munmap() calls
    freed,                \* channel_progress and channel_done are deleted
    fopc,                 \* UI thread: "idle", "close", "parse", "load", "complete" (DoFileOpen), "import"
    m_loadInProgress,     \* OnTimer does nothing while it is set
    m_waveformDataMutex,  \* the thread that holds the session data lock, or NoThread
    store,                \* slot: m_streamData of every stream (0: NULL); destroyed: waveforms deleted
    made,                 \* waveform objects created so far: 1 .. made
    hpc,                  \* processing thread in DownloadWaveforms: "idle", "locked"
    iwave                 \* iwave of LoadWaveformDataForScope: the saved waveform being loaded

\* AddCurrentToRecentlyUsedList
VARIABLES
    m_recentlyUsed,       \* per timestamp: how many entries of the list carry it
    toAdd,                \* instruments the first loop has still to go through
    rupc                  \* "idle", "add", "trim", "done"

\* the IDTable of one save or one load, and LoadDecodes / LoadUIConfiguration
VARIABLES
    table,                \* m_nextID; ids: object -> id (0: none); objects: id -> object
    order,                \* the objects of the table in the order of their first idOf
    result,               \* the last idOf call: its object and the id it returned
    cfg,                  \* the id references of the session file being loaded
    cfgpc,                \* "none", "decodes", "areas", "groups", "splitters", "top",
                          \* "done", "crashed"
    used                  \* the pointers dereferenced by the load so far

trigVars == << nScopes, offline, scope, m_triggerArmed, m_triggerOneShot,
               m_multiScopeFreeRun, twait, primaryAge, armpc, armi, armType, waited,
               armCmd, armSeen, uipc, procpc, waveformReady, waveformProcessed,
               stopped >>

filterVars == << nFilters, inputs, dirty, working, blocks, fpc, cur, started, finished >>

\* the worker threads of one saved waveform and what they share
workVars == << wpc, mapped, cap, channel_done, channel_progress, acquired, released, freed >>

\* the calls in progress on the UI thread and on the processing thread
callVars == << fopc, m_loadInProgress, m_waveformDataMutex, hpc, iwave >>

loadVars == << nStreams, stream, lpc, workVars, store, made, callVars >>

idVars == << table, order, result, cfg, cfgpc, used >>

recentVars == << m_recentlyUsed, toAdd, rupc >>

vars == << trigVars, filterVars, loadVars, idVars, recentVars >>

Scopes == 0 .. (nScopes - 1)

\* ----------------------------------------------------- the instrument (§3)
\* run: "stop", "arming" (arm command sent, not yet reported armed), "armed"
\* mode: "single" or "normal"; pending: length of the pending-waveform queue
\* stale: how many of the queued waveforms were produced before the arm command
\*        of the arm cycle in progress; cyc: armed in that cycle
\* born: per queued waveform, oldest first, m_triggerArmed when it was queued
\* touched: DownloadWaveforms or the free-run timeout branch issued it a command
IdleScope == [run |-> "stop", mode |-> "single", pending |-> 0, stale |-> 0, cyc |-> FALSE,
              born |-> << >>, touched |-> FALSE]

PeekTriggerArmed(s) == s.run = "armed"

HasPendingWaveforms(s) == s.pending > 0

Stop(s) == [s EXCEPT !.run = "stop", !.mode = "single"]

ClearPendingWaveforms(s) == [s EXCEPT !.pending = 0, !.stale = 0, !.born = << >>]

Start(s) == [s EXCEPT !.run = "arming", !.mode = "normal", !.cyc = TRUE]

StartSingleTrigger(s) == [s EXCEPT !.run = "arming", !.mode = "single", !.cyc = TRUE]

ForceTrigger(s) == [s EXCEPT !.run = "arming", !.mode = "single", !.cyc = TRUE]

PopPendingWaveform(s) ==
    IF s.pending > 0
    THEN [s EXCEPT !.pending = @ - 1, !.stale = IF @ > 0 THEN @ - 1 ELSE 0,
                   !.born = Tail(@)]
    ELSE s

Issue(cmd, s) ==
    CASE cmd = "Start" -> Start(s)
      [] cmd = "StartSingleTrigger" -> StartSingleTrigger(s)
      [] cmd = "ForceTrigger" -> ForceTrigger(s)

\* An offline instrument (a MockOscilloscope standing in for hardware that is not
\* connected) takes commands but never reports armed and never triggers.
\* The instrument reports the arm command as taken.
ScopeArmed(i) ==
    /\ i \in Scopes
    /\ ~offline[i]
    /\ scope[i].run = "arming"
    /\ scope' = [scope EXCEPT ![i].run = "armed"]
    /\ UNCHANGED << nScopes, offline, m_triggerArmed, m_triggerOneShot,
                    m_multiScopeFreeRun, twait, primaryAge, armpc, armi, armType,
                    waited, armCmd, armSeen, uipc, procpc, waveformReady,
                    waveformProcessed, stopped >>

\* The instrument triggers: its thread queues one waveform; a single-shot
\* trigger is then no longer armed.
ScopeTrigger(i) ==
    /\ i \in Scopes
    /\ ~offline[i]
    /\ scope[i].run = "armed"
    /\ scope[i].pending < MaxPending
    /\ scope' = [scope EXCEPT
          ![i].pending = @ + 1,
          ![i].stale = IF scope[i].cyc THEN @ ELSE @ + 1,
          ![i].born = Append(@, m_triggerArmed),
          ![i].run = IF scope[i].mode = "single" THEN "stop" ELSE @]
    /\ primaryAge' = IF i = 0 /\ scope[0].pending = 0 THEN 0 ELSE primaryAge
    /\ UNCHANGED << nScopes, offline, m_triggerArmed, m_triggerOneShot,
                    m_multiScopeFreeRun, twait, armpc, armi, armType, waited,
                    armCmd, armSeen, uipc, procpc, waveformReady,
                    waveformProcessed, stopped >>

\* primaryAge follows instrument 0's queue: it runs while the queue is non-empty.
AgeAfter(sc, age) == IF nScopes > 0 /\ sc[0].pending > 0 THEN age ELSE -1

\* ------------------------------------------------------------------- time
Bump(x, limit) == IF x >= 0 /\ x < limit THEN x + 1 ELSE x

Tick ==
    /\ \/ twait >= 0 /\ twait <= FaultWindow
       \/ primaryAge >= 0 /\ primaryAge <= FaultWindow
       \/ \E t \in Threads : armpc[t] = "wait" /\ waited[t] <= ArmTimeout
    /\ twait' = Bump(twait, FaultWindow + 1)
    /\ primaryAge' = Bump(primaryAge, FaultWindow + 1)
    /\ waited' = [t \in Threads |->
                    IF armpc[t] = "wait" THEN Bump(waited[t], ArmTimeout + 1) ELSE waited[t]]
    /\ UNCHANGED << nScopes, offline, scope, m_triggerArmed, m_triggerOneShot,
                    m_multiScopeFreeRun, armpc, armi, armType, armCmd, armSeen,
                    uipc, procpc, waveformReady, waveformProcessed, stopped >>

\* ------------------------------------------------------------ coordinator
HasOnlineScopes == \E i \in Scopes : ~offline[i]

OneShot(type) == type = "FORCED" \/ type = "SINGLE"

\* Mutant of ArmCommand: a secondary is armed with the requested kind as well.
ArmCommandByKind(i, type) ==
    CASE type = "NORMAL" -> IF nScopes > 1 THEN "StartSingleTrigger" ELSE "Start"
      [] type = "SINGLE" -> "StartSingleTrigger"
      [] type = "FORCED" -> "ForceTrigger"

\* The arm command ArmTrigger's loop issues to m_scopes[i].
ArmCommand(i, type) ==
    IF i > 0
    THEN "StartSingleTrigger"
    ELSE CASE type = "NORMAL" -> IF nScopes > 1 THEN "StartSingleTrigger" ELSE "Start"
           [] type = "SINGLE" -> "StartSingleTrigger"
           [] type = "FORCED" -> "ForceTrigger"

NoCmds == [i \in ScopeIds |-> "none"]

\* Mutant of FreeRun: the instrument count is not looked at.
FreeRunAnyCount(type) == ~OneShot(type)

\* if(!oneshot && (m_scopes.size() > 1) ) m_multiScopeFreeRun = true; else false
FreeRun(type) == ~OneShot(type) /\ nScopes > 1

\* Mutant of FirstIndex: the arming loop starts at the primary.
FirstIndexPrimary == IF nScopes > 1 THEN 0 ELSE nScopes - 1

\* for(ssize_t i=m_scopes.size()-1; i >= 0; i--)
FirstIndex == nScopes - 1

\* ArmTrigger, from its entry to the multi-scope drain loop: the flags. With
\* no online scope it returns at once.
ArmEnter(t, type) ==
    /\ armpc[t] = "idle"
    /\ m_triggerOneShot' = OneShot(type)
    /\ armType' = [armType EXCEPT ![t] = type]
    /\ armCmd' = [armCmd EXCEPT ![t] = NoCmds]
    /\ armSeen' = [armSeen EXCEPT ![t] = {}]
    /\ IF ~HasOnlineScopes
       THEN /\ m_triggerArmed' = TRUE
            /\ UNCHANGED << m_multiScopeFreeRun, twait, armpc, armi, scope >>
       ELSE /\ twait' = -1
            /\ m_multiScopeFreeRun' = FreeRun(type)
            /\ armpc' = [armpc EXCEPT ![t] = IF nScopes > 1 THEN "drain" ELSE "arm"]
            /\ armi' = [armi EXCEPT ![t] = FirstIndex]
            /\ scope' = [i \in ScopeIds |->
                           [scope[i] EXCEPT !.stale = scope[i].pending, !.cyc = FALSE]]
            /\ UNCHANGED m_triggerArmed
    /\ UNCHANGED << nScopes, offline, primaryAge, waited, waveformReady,
                    waveformProcessed >>

\* One instrument of the drain loop: stop it if armed, clear it if it has data.
Drained(s) ==
    LET a == IF PeekTriggerArmed(s) THEN Stop(s) ELSE s
    IN  IF HasPendingWaveforms(a) THEN ClearPendingWaveforms(a) ELSE a

\* In multi-scope mode, make sure all scopes are stopped with no pending waveforms.
ArmDrain(t) ==
    /\ armpc[t] = "drain"
    /\ scope' = [i \in ScopeIds |-> IF i \in Scopes THEN Drained(scope[i]) ELSE scope[i]]
    /\ primaryAge' = AgeAfter(scope', primaryAge)
    /\ armpc' = [armpc EXCEPT ![t] = "arm"]
    /\ UNCHANGED << nScopes, offline, m_triggerArmed, m_triggerOneShot,
                    m_multiScopeFreeRun, twait, armi, armType, waited, armCmd,
                    armSeen, uipc, procpc, waveformReady, waveformProcessed, stopped >>

\* The arming loop's body up to the confirmation wait: the arm command of
\* m_scopes[i]; after the primary's, ArmTrigger returns with the trigger armed.
ArmIssue(t) ==
    /\ armpc[t] = "arm"
    /\ LET i == armi[t]
           cmd == ArmCommand(i, armType[t])
       IN  /\ scope' = [scope EXCEPT ![i] = Issue(cmd, @)]
           /\ armCmd' = [armCmd EXCEPT ![t][i] = cmd]
           /\ IF i # 0
              THEN /\ armpc' = [armpc EXCEPT ![t] = "wait"]
                   /\ waited' = [waited EXCEPT ![t] = 0]
                   /\ UNCHANGED << m_triggerArmed, procpc >>
              ELSE /\ armpc' = [armpc EXCEPT ![t] = "idle"]
                   /\ m_triggerArmed' = TRUE
                   /\ procpc' = IF t = "proc" THEN "poll" ELSE procpc
                   /\ UNCHANGED waited
    /\ UNCHANGED << nScopes, offline, m_triggerOneShot, m_multiScopeFreeRun, twait,
                    primaryAge, armi, armType, armSeen, uipc, waveformReady,
                    waveformProcessed, stopped >>

\* Mutant of ArmConfirmed: the loop goes on without waiting for PeekTriggerArmed.
ArmConfirmedNoWait(t) ==
    /\ armpc[t] = "wait"
    /\ scope' = [scope EXCEPT ![armi[t]] = ClearPendingWaveforms(@)]
    /\ armSeen' = [armSeen EXCEPT ![t] =
                      IF PeekTriggerArmed(scope[armi[t]]) THEN @ \cup {armi[t]} ELSE @]
    /\ armi' = [armi EXCEPT ![t] = @ - 1]
    /\ armpc' = [armpc EXCEPT ![t] = "arm"]
    /\ waited' = [waited EXCEPT ![t] = 0]
    /\ UNCHANGED << nScopes, offline, m_triggerArmed, m_triggerOneShot,
                    m_multiScopeFreeRun, twait, primaryAge, armType, armCmd, uipc,
                    procpc, waveformReady, waveformProcessed, stopped >>

\* Mutant of ArmConfirmed: the secondary's queue is not cleared.
ArmConfirmedNoClear(t) ==
    /\ armpc[t] = "wait"
    /\ PeekTriggerArmed(scope[armi[t]])
    /\ armSeen' = [armSeen EXCEPT ![t] = @ \cup {armi[t]}]
    /\ armi' = [armi EXCEPT ![t] = @ - 1]
    /\ armpc' = [armpc EXCEPT ![t] = "arm"]
    /\ waited' = [waited EXCEPT ![t] = 0]
    /\ UNCHANGED << nScopes, offline, scope, m_triggerArmed, m_triggerOneShot,
                    m_multiScopeFreeRun, twait, primaryAge, armType, armCmd, uipc,
                    procpc, waveformReady, waveformProcessed, stopped >>

\* while(!m_scopes[i]->PeekTriggerArmed()) left: clear the secondary's queue
\* and go on with the next instrument.
ArmConfirmed(t) ==
    /\ armpc[t] = "wait"
    /\ PeekTriggerArmed(scope[armi[t]])
    /\ scope' = [scope EXCEPT ![armi[t]] = ClearPendingWaveforms(@)]
    /\ armSeen' = [armSeen EXCEPT ![t] =
                      IF PeekTriggerArmed(scope[armi[t]]) THEN @ \cup {armi[t]} ELSE @]
    /\ armi' = [armi EXCEPT ![t] = @ - 1]
    /\ armpc' = [armpc EXCEPT ![t] = "arm"]
    /\ waited' = [waited EXCEPT ![t] = 0]
    /\ UNCHANGED << nScopes, offline, m_triggerArmed, m_triggerOneShot,
                    m_multiScopeFreeRun, twait, primaryAge, armType, armCmd, uipc,
                    procpc, waveformReady, waveformProcessed, stopped >>

\* The wait's timeout: stop the secondary, single-shot arm it again, start = now.
ArmRetry(t) ==
    /\ armpc[t] = "wait"
    /\ ~PeekTriggerArmed(scope[armi[t]])
    /\ waited[t] > ArmTimeout
    /\ scope' = [scope EXCEPT ![armi[t]] = StartSingleTrigger(Stop(@))]
    /\ waited' = [waited EXCEPT ![t] = 0]
    /\ UNCHANGED << nScopes, offline, m_triggerArmed, m_triggerOneShot,
                    m_multiScopeFreeRun, twait, primaryAge, armpc, armi, armType,
                    armCmd, armSeen, uipc, procpc, waveformReady,
                    waveformProcessed, stopped >>

\* Mutant of StoppedScopes: offline instruments are skipped.
StoppedOnlineScopes == [i \in ScopeIds |->
                          IF i \in Scopes /\ ~offline[i]
                          THEN ClearPendingWaveforms(Stop(scope[i]))
                          ELSE scope[i]]

\* OnStop's loop: Stop, then ClearPendingWaveforms, on every instrument.
StoppedScopes == [i \in ScopeIds |->
                    IF i \in Scopes THEN ClearPendingWaveforms(Stop(scope[i])) ELSE scope[i]]

OnStop ==
    /\ uipc = "idle"
    /\ armpc["ui"] = "idle"
    /\ m_multiScopeFreeRun' = FALSE
    /\ m_triggerArmed' = FALSE
    /\ scope' = StoppedScopes
    /\ primaryAge' = -1
    /\ stopped' = TRUE
    /\ UNCHANGED << nScopes, offline, m_triggerOneShot, twait, armpc, armi, armType,
                    waited, armCmd, armSeen, uipc, procpc, waveformReady,
                    waveformProcessed >>

\* The constructor's ArmTrigger(TRIGGER_TYPE_NORMAL).
Construct ==
    /\ uipc = "ctor"
    /\ ArmEnter("ui", "NORMAL")
    /\ uipc' = "idle"
    /\ UNCHANGED << procpc, stopped >>

\* OnStart, OnStartSingle, OnForceTrigger.
OnArm(type) ==
    /\ uipc = "idle"
    /\ ArmEnter("ui", type)
    /\ stopped' = FALSE
    /\ UNCHANGED << uipc, procpc >>

\* Mutant of TimerProcess: the re-arm comes first, before the waveforms are
\* processed and the processing thread is released.
TimerProcessRearmFirst ==
    /\ ~m_loadInProgress
    /\ uipc = "idle"
    /\ m_triggerArmed
    /\ waveformReady
    /\ m_multiScopeFreeRun
    /\ ArmEnter("ui", "NORMAL")
    /\ uipc' = "rearm"
    /\ UNCHANGED << procpc, stopped >>

\* OnTimer with the trigger armed and the ready event set: under the data lock
\* the history is updated and OnAllWaveformsUpdated consumes the ready event;
\* the lock is released and the processing thread is released.
TimerProcess ==
    /\ ~m_loadInProgress
    /\ uipc = "idle"
    /\ armpc["ui"] = "idle"
    /\ m_triggerArmed
    /\ waveformReady
    /\ waveformReady' = FALSE
    /\ waveformProcessed' = TRUE
    /\ uipc' = "rearm"
    /\ UNCHANGED << nScopes, offline, scope, m_triggerArmed, m_triggerOneShot,
                    m_multiScopeFreeRun, twait, primaryAge, armpc, armi, armType,
                    waited, armCmd, armSeen, procpc, stopped >>

\* ... then, in multi-scope free-run mode, ArmTrigger(TRIGGER_TYPE_NORMAL).
TimerRearm ==
    /\ uipc = "rearm"
    /\ uipc' = "idle"
    /\ IF m_multiScopeFreeRun
       THEN ArmEnter("ui", "NORMAL")
       ELSE UNCHANGED << nScopes, offline, scope, m_triggerArmed, m_triggerOneShot,
                         m_multiScopeFreeRun, twait, primaryAge, armpc, armi,
                         armType, waited, armCmd, armSeen, waveformReady,
                         waveformProcessed >>
    /\ UNCHANGED << procpc, stopped >>

\* OnTimer with the trigger not armed: discard all pending waveform data.
TimerDiscard ==
    /\ ~m_loadInProgress
    /\ uipc = "idle"
    /\ armpc["ui"] = "idle"
    /\ ~m_triggerArmed
    /\ \E i \in Scopes : HasPendingWaveforms(scope[i])
    /\ scope' = [i \in ScopeIds |->
                   IF i \in Scopes THEN ClearPendingWaveforms(scope[i]) ELSE scope[i]]
    /\ primaryAge' = -1
    /\ UNCHANGED << nScopes, offline, m_triggerArmed, m_triggerOneShot,
                    m_multiScopeFreeRun, twait, armpc, armi, armType, waited,
                    armCmd, armSeen, uipc, procpc, waveformReady,
                    waveformProcessed, stopped >>

\* ------------------------------------------------- CheckForPendingWaveforms
AllOnlinePending == \A i \in Scopes : offline[i] \/ HasPendingWaveforms(scope[i])

\* m_tPrimaryTrigger as CheckForPendingWaveforms leaves it when it reaches the
\* free-run block: set to now if it was unset and the primary has data.
TwaitSeen == IF twait < 0 /\ HasPendingWaveforms(scope[0]) THEN 0 ELSE twait

\* What CheckForPendingWaveforms does in the current state: "ready" (returns
\* true), "notready" (returns false) or "fault" (the free-run timeout branch).
CheckResult ==
    IF ~HasOnlineScopes
    THEN IF m_triggerArmed THEN "ready" ELSE "notready"
    ELSE IF ~AllOnlinePending
         THEN "notready"
         ELSE IF m_multiScopeFreeRun /\ TwaitSeen > 0 /\ TwaitSeen > FaultWindow
              THEN "fault"
              ELSE "ready"

\* CheckForPendingWaveforms returns true; the thread goes on to the download.
PollReady ==
    /\ procpc = "poll"
    /\ CheckResult = "ready"
    /\ twait' = IF HasOnlineScopes /\ m_multiScopeFreeRun THEN TwaitSeen ELSE twait
    /\ procpc' = "download"
    /\ UNCHANGED << nScopes, offline, scope, m_triggerArmed, m_triggerOneShot,
                    m_multiScopeFreeRun, primaryAge, armpc, armi, armType, waited,
                    armCmd, armSeen, uipc, waveformReady, waveformProcessed, stopped >>

\* A command of the harvest or of the free-run timeout branch reaches s.
Touch(s) == [s EXCEPT !.touched = TRUE]

\* The instruments the free-run timeout branch issues commands to: its OnStop
\* call goes over all of m_scopes, its own loop over the online ones.
RecoveryTargets == Scopes

\* The free-run timeout branch: OnStop, clear every online instrument, OnStart.
FaultCleared == [i \in ScopeIds |->
                   IF i \in Scopes /\ ~offline[i]
                   THEN ClearPendingWaveforms(StoppedScopes[i])
                   ELSE StoppedScopes[i]]

FaultTouched == [i \in ScopeIds |->
                   IF i \in RecoveryTargets THEN Touch(FaultCleared[i]) ELSE FaultCleared[i]]

PollFault ==
    /\ procpc = "poll"
    /\ CheckResult = "fault"
    /\ armpc["proc"] = "idle"
    /\ m_triggerOneShot' = FALSE
    /\ m_triggerArmed' = FALSE
    /\ m_multiScopeFreeRun' = FreeRun("NORMAL")
    /\ twait' = -1
    /\ primaryAge' = -1
    /\ scope' = [i \in ScopeIds |-> [FaultTouched[i] EXCEPT !.stale = 0, !.cyc = FALSE]]
    /\ armType' = [armType EXCEPT !["proc"] = "NORMAL"]
    /\ armCmd' = [armCmd EXCEPT !["proc"] = NoCmds]
    /\ armSeen' = [armSeen EXCEPT !["proc"] = {}]
    /\ armpc' = [armpc EXCEPT !["proc"] = IF nScopes > 1 THEN "drain" ELSE "arm"]
    /\ armi' = [armi EXCEPT !["proc"] = FirstIndex]
    /\ procpc' = "recover"
    /\ UNCHANGED << nScopes, offline, waited, uipc, waveformReady,
                    waveformProcessed, stopped >>

\* ---------------------------------------------------------- DownloadWaveforms
\* Mutant of HarvestTargets: offline instruments are not skipped.
HarvestTargetsAll == Scopes

\* for(auto scope : m_scopes) { if(scope->IsOffline()) continue; ... }
HarvestTargets == {i \in Scopes : ~offline[i]}

DownloadWaveforms ==
    /\ procpc = "download"
    /\ scope' = [i \in ScopeIds |->
                   IF i \in HarvestTargets
                   THEN Touch(PopPendingWaveform(scope[i]))
                   ELSE scope[i]]
    /\ primaryAge' = AgeAfter(scope', primaryAge)
    /\ m_triggerArmed' = IF nScopes = 0 /\ m_triggerOneShot THEN FALSE ELSE m_triggerArmed
    /\ procpc' = "signal"
    /\ UNCHANGED << nScopes, offline, m_triggerOneShot, m_multiScopeFreeRun, twait,
                    armpc, armi, armType, waited, armCmd, armSeen, uipc,
                    waveformReady, waveformProcessed, stopped >>

\* The processing thread, after the download: the filter graph is refreshed and
\* g_waveformReadyEvent is signalled for the UI thread.
PollSignal ==
    /\ procpc = "signal"
    /\ waveformReady' = TRUE
    /\ procpc' = "block"
    /\ UNCHANGED << nScopes, offline, scope, m_triggerArmed, m_triggerOneShot,
                    m_multiScopeFreeRun, twait, primaryAge, armpc, armi, armType,
                    waited, armCmd, armSeen, uipc, waveformProcessed, stopped >>

\* g_waveformProcessedEvent.Block() returns.
PollResume ==
    /\ procpc = "block"
    /\ waveformProcessed
    /\ waveformProcessed' = FALSE
    /\ procpc' = "poll"
    /\ UNCHANGED << nScopes, offline, scope, m_triggerArmed, m_triggerOneShot,
                    m_multiScopeFreeRun, twait, primaryAge, armpc, armi, armType,
                    waited, armCmd, armSeen, uipc, waveformReady, stopped >>

\* ------------------------------------------------------- RefreshAllFilters
FilterIds == 1 .. MaxFilters

\* Filter::GetAllInstances()
Filters == 1 .. nFilters

\* A filter has MaxInputs input slots.  A slot holds another filter, the filter
\* itself, or a scope channel (or no channel), written 0, which is never a
\* member of the working set; the slots that hold no filter hold 0.
InputSets ==
    {S \in SUBSET (0 .. MaxFilters) :
        /\ Cardinality(S \ {0}) <= MaxInputs
        /\ 0 \in S <=> Cardinality(S \ {0}) < MaxInputs}

\* working.find((Filter*)in) != working.end()
InputInWorking(d, w) == \E in \in inputs[d] : in \in w

\* a mutation of Qualifies: a filter's own output is not looked for among its inputs
QualifiesIgnoringSelf(d, w) == \A in \in inputs[d] \ {d} : in \notin w

\* a mutation of Qualifies: only a filter without filter inputs is taken
QualifiesLeafOnly(d, w) == inputs[d] \cap Filters = {}

\* bool ok: no input of d is still in the working set
Qualifies(d, w) == ~InputInWorking(d, w)

\* a mutation of CurrentBlock: the loop over the working set stops at the first
\* filter it takes
CurrentBlockFirstOnly(w) ==
    LET ok == {d \in w : Qualifies(d, w)}
    IN  IF ok = {} THEN {} ELSE {CHOOSE d \in ok : \A e \in ok : d <= e}

\* FilterBlock current_block after the loop over the working set
CurrentBlock(w) == {d \in w : Qualifies(d, w)}

\* a mutation of Erased: only one filter of the block leaves the working set
ErasedOne(w, blk) == IF blk = {} THEN w ELSE w \ {CHOOSE d \in blk : \A e \in blk : d <= e}

\* for(auto d : current_block) working.erase(d)
Erased(w, blk) == w \ blk

\* ClearAnalysisCache, GetAllInstances, SetDirty on every filter, working = filters
RefreshStart ==
    /\ fpc = "idle"
    /\ dirty' = Filters
    /\ working' = Filters
    /\ blocks' = << >>
    /\ fpc' = "level"
    /\ cur' = 1
    /\ started' = {}
    /\ finished' = {}
    /\ UNCHANGED << nFilters, inputs, trigVars, loadVars, idVars, recentVars >>

\* one iteration of for(int block=0; !working.empty(); block++)
LevelStep ==
    /\ fpc = "level"
    /\ working # {}
    /\ Len(blocks) < nFilters + MaxSpin
    /\ LET current_block == CurrentBlock(working)
       IN  /\ working' = Erased(working, current_block)
           /\ blocks' = Append(blocks, current_block)
    /\ UNCHANGED << nFilters, inputs, dirty, fpc, cur, started, finished,
                    trigVars, loadVars, idVars, recentVars >>

\* the loop condition fails: on to the evaluation of the blocks
LevelExit ==
    /\ fpc = "level"
    /\ working = {}
    /\ fpc' = "eval"
    /\ cur' = 1
    /\ UNCHANGED << nFilters, inputs, dirty, working, blocks, started, finished,
                    trigVars, loadVars, idVars, recentVars >>

\* a worker of the parallel loop takes block[i] and calls RefreshIfDirty()
EvalStart(f) ==
    /\ fpc = "eval"
    /\ cur <= Len(blocks)
    /\ f \in blocks[cur]
    /\ << cur, f >> \notin started
    /\ started' = started \cup {<< cur, f >>}
    /\ UNCHANGED << nFilters, inputs, dirty, working, blocks, fpc, cur, finished,
                    trigVars, loadVars, idVars, recentVars >>

\* RefreshIfDirty() returns: the filter is clean
EvalFinish(f) ==
    /\ fpc = "eval"
    /\ \E b \in 1 .. Len(blocks) :
          /\ << b, f >> \in started \ finished
          /\ finished' = finished \cup {<< b, f >>}
    /\ dirty' = dirty \ {f}
    /\ UNCHANGED << nFilters, inputs, working, blocks, fpc, cur, started,
                    trigVars, loadVars, idVars, recentVars >>

\* a mutation of BlockComplete: the parallel loop does not wait for its workers
BlockCompleteNoJoin(b) == \A f \in blocks[b] : << b, f >> \in started

\* every iteration of the parallel loop over block b has returned
BlockComplete(b) == \A f \in blocks[b] : << b, f >> \in finished

\* the implicit barrier at the end of "#pragma omp parallel for", next block
BlockJoin ==
    /\ fpc = "eval"
    /\ cur <= Len(blocks)
    /\ BlockComplete(cur)
    /\ cur' = cur + 1
    /\ UNCHANGED << nFilters, inputs, dirty, working, blocks, fpc, started,
                    finished, trigVars, loadVars, idVars, recentVars >>

\* all blocks evaluated: RefreshMeasurements and return
RefreshDone ==
    /\ fpc = "eval"
    /\ cur > Len(blocks)
    /\ fpc' = "idle"
    /\ UNCHANGED << nFilters, inputs, dirty, working, blocks, cur, started,
                    finished, trigVars, loadVars, idVars, recentVars >>

FilterAtRest ==
    /\ nFilters = 0
    /\ inputs = [f \in FilterIds |-> {}]
    /\ dirty = {}
    /\ working = {}
    /\ blocks = << >>
    /\ fpc = "idle"
    /\ cur = 1
    /\ started = {}
    /\ finished = {}

FilterNext ==
    \/ RefreshStart
    \/ LevelStep
    \/ LevelExit
    \/ \E f \in FilterIds : EvalStart(f)
    \/ \E f \in FilterIds : EvalFinish(f)
    \/ BlockJoin
    \/ RefreshDone

\* ------------------------------------------- waveform body: bytes and values
\* A body file is a sequence of bytes 0..255.  An int64_t is its eight bytes,
\* low byte first, two's complement; the model's offsets and durations are
\* small, so the upper four bytes are the sign extension.  A float is kept as
\* the four bytes of its IEEE-754 representation, a bool as one byte.
Pow256(k) == IF k = 0 THEN 1 ELSE IF k = 1 THEN 256 ELSE IF k = 2 THEN 65536 ELSE 16777216

Digit(u, k) == IF k <= 4 THEN (u \div Pow256(k - 1)) % 256 ELSE 0

Int64Bytes(v) ==
    [k \in 1 .. 8 |-> IF v >= 0 THEN Digit(v, k) ELSE 255 - Digit((0 - v) - 1, k)]

BytesInt64(b) ==
    IF b[8] >= 128
    THEN 0 - (1 + (255 - b[1]) + (255 - b[2]) * 256 + (255 - b[3]) * 65536
                + (255 - b[4]) * 16777216)
    ELSE b[1] + b[2] * 256 + b[3] * 65536 + b[4] * 16777216

\* 0.0 and 1.5 as IEEE-754 single precision, low byte first
FloatZero == << 0, 0, 0, 0 >>
FloatOnePointFive == << 0, 0, 192, 63 >>

\* sizeof(float), sizeof(bool)
ValueSize(kind) == IF kind = "analog" THEN 4 ELSE 1

\* size_t samplesize = 2*sizeof(int64_t) + sizeof(float) or sizeof(bool)
SampleSize(kind) == 2 * 8 + ValueSize(kind)

ValueBytes(kind, v) == IF kind = "analog" THEN v ELSE << IF v THEN 1 ELSE 0 >>

\* *reinterpret_cast<float*>(buf+offset), *reinterpret_cast<bool*>(buf+offset)
BytesValue(kind, b) == IF kind = "analog" THEN b ELSE b[1] # 0

\* the len bytes at buf + offset
Slice(buf, offset, len) == SubSeq(buf, offset + 1, offset + len)

RECURSIVE Concat(_, _)
Concat(seqs, n) == IF n = 0 THEN << >> ELSE Concat(seqs, n - 1) \o seqs[n]

\* the writer of a body file: one record per sample (sparsev1), or the values
\* alone (densev1)
SparseEncode(kind, w) ==
    Concat([j \in 1 .. Len(w.samples) |->
               Int64Bytes(w.offsets[j]) \o Int64Bytes(w.durations[j])
                   \o ValueBytes(kind, w.samples[j])],
           Len(w.samples))

DenseEncode(kind, w) ==
    Concat([j \in 1 .. Len(w.samples) |-> ValueBytes(kind, w.samples[j])], Len(w.samples))

Encode(format, kind, w) ==
    IF format = "densev1" THEN DenseEncode(kind, w) ELSE SparseEncode(kind, w)

\* new AnalogWaveform / new DigitalWaveform: no samples, not dense packed
EmptyCapture ==
    [m_offsets |-> << >>, m_durations |-> << >>, m_samples |-> << >>,
     m_densePacked |-> FALSE]

\* a mutation of DensePackedCheck: only the first sample is looked at
DensePackedCheckFirstOnly(c) == c.m_offsets[1] = 0

\* (m_offsets[0] == 0) && (m_offsets[nlast] == nlast) && (m_durations[nlast] == 1)
DensePackedCheck(c) ==
    LET nlast == Len(c.m_samples) - 1
    IN  /\ c.m_offsets[1] = 0
        /\ c.m_offsets[nlast + 1] = nlast
        /\ c.m_durations[nlast + 1] = 1

\* the samples read from a sparsev1 buffer, before the dense-packed check
SparseSamples(kind, buf) ==
    LET samplesize == SampleSize(kind)
        nsamples == Len(buf) \div samplesize
    IN  [m_offsets |-> [j \in 1 .. nsamples |->
                           BytesInt64(Slice(buf, (j - 1) * samplesize, 8))],
         m_durations |-> [j \in 1 .. nsamples |->
                           BytesInt64(Slice(buf, (j - 1) * samplesize + 8, 8))],
         m_samples |-> [j \in 1 .. nsamples |->
                           BytesValue(kind, Slice(buf, (j - 1) * samplesize + 16,
                                                  ValueSize(kind)))],
         m_densePacked |-> FALSE]

\* the sparsev1 branch for a buffer of at least one whole record
SparseDecode(kind, buf) ==
    LET c == SparseSamples(kind, buf)
    IN  [c EXCEPT !.m_densePacked = DensePackedCheck(c)]

\* a mutation of DenseDecode: the offsets are counted from one
DenseDecodeFromOne(kind, buf) ==
    LET nsamples == Len(buf) \div ValueSize(kind)
    IN  [m_offsets |-> [i \in 1 .. nsamples |-> i],
         m_durations |-> [i \in 1 .. nsamples |-> 1],
         m_samples |-> [i \in 1 .. nsamples |->
                           BytesValue(kind, Slice(buf, (i - 1) * ValueSize(kind),
                                                  ValueSize(kind)))],
         m_densePacked |-> TRUE]

\* the densev1 branch
DenseDecode(kind, buf) ==
    LET nsamples == Len(buf) \div ValueSize(kind)
    IN  [m_offsets |-> [i \in 1 .. nsamples |-> i - 1],
         m_durations |-> [i \in 1 .. nsamples |-> 1],
         m_samples |-> [i \in 1 .. nsamples |->
                           BytesValue(kind, Slice(buf, (i - 1) * ValueSize(kind),
                                                  ValueSize(kind)))],
         m_densePacked |-> TRUE]

\* ------------------------------------------------- LoadWaveformDataForScope
StreamIds == 1 .. MaxStreams

Streams == 1 .. nStreams

Formats == {"sparsev1", "densev1", "sparsev2"}

\* the bytes after the last whole record of a body file
TrailBytes(k) == [j \in 1 .. k |-> 7]

\* the contents of stream i's body file
Body(i) ==
    Encode(stream[i].format, stream[i].kind, stream[i].wave) \o TrailBytes(stream[i].trail)

\* no descriptor and no mapping
NoneHeld == [fd |-> 0, map |-> 0]

\* mmap(NULL, len, PROT_READ, MAP_PRIVATE, fd, 0) maps a file of len > 0 bytes;
\* with len = 0 it fails and returns MAP_FAILED
MmapSucceeds(len) == len > 0

\* ------------------------------------------------------ the stream slots
\* a waveform object is a number 1 .. made; 0 is NULL
EmptyStore == [slot |-> [s \in StreamIds |-> 0], destroyed |-> {}]

\* a mutation of Detach: the slot keeps its waveform
DetachNothing(st, s) == st

\* OscilloscopeChannel::Detach(s): the slot gives up its waveform, which lives on
Detach(st, s) == [st EXCEPT !.slot[s] = 0]

\* OscilloscopeChannel::SetData(p, s): a waveform still in the slot is deleted
SetData(st, p, s) ==
    IF st.slot[s] = p
    THEN st
    ELSE [slot |-> [st.slot EXCEPT ![s] = p],
          destroyed |-> st.destroyed \cup (IF st.slot[s] = 0 THEN {} ELSE {st.slot[s]})]

\* for every stream j of every channel: chan->Detach(j)
RECURSIVE DetachAll(_, _)
DetachAll(st, n) == IF n = 0 THEN st ELSE Detach(DetachAll(st, n - 1), n)

\* for every stream j of every channel: chan->SetData(NULL, j)
RECURSIVE ClearAll(_, _)
ClearAll(st, n) == IF n = 0 THEN st ELSE SetData(ClearAll(st, n - 1), 0, n)

\* a new waveform base + s is installed on every stream s of 1 .. n
RECURSIVE InstallFresh(_, _, _)
InstallFresh(st, n, base) ==
    IF n = 0 THEN st ELSE SetData(InstallFresh(st, n - 1, base), base + n, n)

\* per channel entry of the saved waveform: cap = new ...Waveform;
\* chan->Detach(stream); chan->SetData(cap, stream)
RECURSIVE SetupCaptures(_, _, _)
SetupCaptures(st, n, base) ==
    IF n = 0 THEN st ELSE SetData(Detach(SetupCaptures(st, n - 1, base), n), base + n, n)

\* delete scope, for every scope: the waveforms in the slots go with it
CloseStore(st) ==
    [slot |-> [s \in StreamIds |-> 0],
     destroyed |-> st.destroyed \cup {st.slot[s] : s \in {x \in StreamIds : st.slot[x] # 0}}]

\* the threads that can hold m_waveformDataMutex
NoThread == << "none", 0 >>
UiThread == << "ui", 0 >>
ProcThread == << "proc", 0 >>
LoaderThread(i) == << "loader", i >>

NoStream ==
    [kind |-> "analog", format |-> "sparsev1", openable |-> FALSE,
     wave |-> [offsets |-> << >>, durations |-> << >>, samples |-> << >>],
     trail |-> 0]

\* the process has not died in a worker
Alive == \A i \in StreamIds : wpc[i] \notin {"crashed", "died"}

\* per channel of the waveform: a new capture on the channel, channel_done = 0,
\* channel_progress = 0, and a thread running DoLoadWaveformDataForScope
LoadStart ==
    /\ lpc = "setup"
    /\ made + nStreams <= MaxWaveforms
    /\ store' = SetupCaptures(store, nStreams, made)
    /\ made' = made + nStreams
    /\ lpc' = "wait"
    /\ wpc' = [i \in StreamIds |-> IF i \in Streams THEN "open" ELSE "none"]
    /\ cap' = [i \in StreamIds |-> EmptyCapture]
    /\ channel_done' = [i \in StreamIds |-> 0]
    /\ channel_progress' = [i \in StreamIds |-> 0]
    /\ freed' = FALSE
    /\ UNCHANGED << nStreams, stream, mapped, acquired, released, callVars, trigVars, filterVars, idVars, recentVars >>

\* open() fails: LogError and return
WorkerOpenFail(i) ==
    /\ Alive
    /\ wpc[i] = "open"
    /\ ~stream[i].openable
    /\ wpc' = [wpc EXCEPT ![i] = "exit"]
    /\ UNCHANGED << nStreams, stream, lpc, mapped, cap, channel_done,
                    channel_progress, acquired, released, freed, store, made, callVars, trigVars, filterVars, idVars, recentVars >>

\* open() succeeds; mmap(), its result unchecked; *progress = 1
WorkerOpen(i) ==
    /\ Alive
    /\ wpc[i] = "open"
    /\ stream[i].openable
    /\ mapped' = [mapped EXCEPT ![i] = MmapSucceeds(Len(Body(i)))]
    /\ acquired' = [acquired EXCEPT ![i] =
                       [fd |-> 1, map |-> IF MmapSucceeds(Len(Body(i))) THEN 1 ELSE 0]]
    /\ channel_progress' = [channel_progress EXCEPT ![i] = 1]
    /\ wpc' = [wpc EXCEPT ![i] = "decode"]
    /\ UNCHANGED << nStreams, stream, lpc, cap, channel_done, released, freed, store, made, callVars, trigVars, filterVars, idVars, recentVars >>

\* format == "sparsev1", at least one whole record in the buffer
DecodeSparse(i) ==
    /\ Alive
    /\ wpc[i] = "decode"
    /\ stream[i].format = "sparsev1"
    /\ Len(Body(i)) \div SampleSize(stream[i].kind) > 0
    /\ cap' = [cap EXCEPT ![i] = SparseDecode(stream[i].kind, Body(i))]
    /\ wpc' = [wpc EXCEPT ![i] = "release"]
    /\ UNCHANGED << nStreams, stream, lpc, mapped, channel_done, channel_progress,
                    acquired, released, freed, store, made, callVars, trigVars, filterVars, idVars, recentVars >>

\* format == "sparsev1", nsamples == 0: Resize(0), the loop does nothing, and
\* the dense-packed check reads m_offsets[0] and m_offsets[-1] of an empty
\* array.  The read is outside the array: the worker faults, or it reads
\* whatever is there and the flag comes out either way.
DecodeSparseEmpty(i) ==
    /\ Alive
    /\ wpc[i] = "decode"
    /\ stream[i].format = "sparsev1"
    /\ Len(Body(i)) \div SampleSize(stream[i].kind) = 0
    /\ \E outcome \in {"fault", "dense", "notdense"} :
          /\ wpc' = [wpc EXCEPT ![i] = IF outcome = "fault" THEN "crashed" ELSE "release"]
          /\ cap' = [cap EXCEPT ![i] = [EmptyCapture EXCEPT !.m_densePacked = (outcome = "dense")]]
    /\ UNCHANGED << nStreams, stream, lpc, mapped, channel_done, channel_progress,
                    acquired, released, freed, store, made, callVars, trigVars, filterVars, idVars, recentVars >>

\* format == "densev1"
DecodeDense(i) ==
    /\ Alive
    /\ wpc[i] = "decode"
    /\ stream[i].format = "densev1"
    /\ cap' = [cap EXCEPT ![i] = DenseDecode(stream[i].kind, Body(i))]
    /\ wpc' = [wpc EXCEPT ![i] = "release"]
    /\ UNCHANGED << nStreams, stream, lpc, mapped, channel_done, channel_progress,
                    acquired, released, freed, store, made, callVars, trigVars, filterVars, idVars, recentVars >>

\* a mutation of DecodeUnknown: an unknown tag is read as sparsev1
DecodeUnknownAsSparse(i) ==
    /\ Alive
    /\ wpc[i] = "decode"
    /\ stream[i].format \notin {"sparsev1", "densev1"}
    /\ cap' = [cap EXCEPT ![i] = SparseSamples(stream[i].kind, Body(i))]
    /\ wpc' = [wpc EXCEPT ![i] = "release"]
    /\ UNCHANGED << nStreams, stream, lpc, mapped, channel_done, channel_progress,
                    acquired, released, freed, store, made, callVars, trigVars, filterVars, idVars, recentVars >>

\* any other format: LogError, the capture is left as it was created
DecodeUnknown(i) ==
    /\ Alive
    /\ wpc[i] = "decode"
    /\ stream[i].format \notin {"sparsev1", "densev1"}
    /\ wpc' = [wpc EXCEPT ![i] = "release"]
    /\ UNCHANGED << nStreams, stream, lpc, mapped, cap, channel_done,
                    channel_progress, acquired, released, freed, store, made, callVars, trigVars, filterVars, idVars, recentVars >>

\* munmap(buf, len), close(fd), *done = 1
WorkerRelease(i) ==
    /\ Alive
    /\ wpc[i] = "release"
    /\ mapped' = [mapped EXCEPT ![i] = FALSE]
    /\ released' = [released EXCEPT ![i] = [fd |-> @.fd + 1, map |-> @.map + 1]]
    /\ channel_done' = [channel_done EXCEPT ![i] = 1]
    /\ wpc' = [wpc EXCEPT ![i] = "progress"]
    /\ UNCHANGED << nStreams, stream, lpc, cap, channel_progress, acquired, freed,
                    store, made, callVars, trigVars, filterVars, idVars, recentVars >>

\* *progress = 1 and return.  When the arrays have been deleted the store
\* goes to freed memory: it lands unnoticed, or the process dies of it.
WorkerFinish(i) ==
    /\ Alive
    /\ wpc[i] = "progress"
    /\ IF freed
          THEN /\ \E outcome \in {"unnoticed", "fault"} :
                     wpc' = [wpc EXCEPT ![i] = IF outcome = "fault" THEN "died" ELSE "exit"]
               /\ UNCHANGED channel_progress
          ELSE /\ wpc' = [wpc EXCEPT ![i] = "exit"]
               /\ channel_progress' = [channel_progress EXCEPT ![i] = 1]
    /\ UNCHANGED << nStreams, stream, lpc, mapped, cap, channel_done, acquired, released,
                    freed, store, made, callVars, trigVars, filterVars, idVars, recentVars >>

\* bool done of the wait loop: every channel_done[i] is set
AllDone == \A i \in Streams : channel_done[i] # 0

\* the wait loop finds a thread not done: progress update, sleep, next round
WaitPoll ==
    /\ Alive
    /\ lpc = "wait"
    /\ ~AllDone
    /\ UNCHANGED vars

\* the wait loop breaks; delete[] channel_progress; delete[] channel_done
WaitDone ==
    /\ Alive
    /\ lpc = "wait"
    /\ AllDone
    /\ lpc' = "join"
    /\ freed' = TRUE
    /\ UNCHANGED << nStreams, stream, wpc, mapped, cap, channel_done,
                    channel_progress, acquired, released, store, made, callVars, trigVars, filterVars, idVars, recentVars >>

\* every thread is joined and deleted; OnWaveformDataReady
WaitJoin ==
    /\ Alive
    /\ lpc = "join"
    /\ \A i \in Streams : wpc[i] = "exit"
    /\ lpc' = "finished"
    /\ UNCHANGED << nStreams, stream, wpc, mapped, cap, channel_done,
                    channel_progress, acquired, released, freed, store, made, callVars, trigVars, filterVars, idVars, recentVars >>

LoadAtRest ==
    /\ nStreams = 0
    /\ stream = [i \in StreamIds |-> NoStream]
    /\ lpc = "finished"
    /\ wpc = [i \in StreamIds |-> "none"]
    /\ mapped = [i \in StreamIds |-> FALSE]
    /\ cap = [i \in StreamIds |-> EmptyCapture]
    /\ channel_done = [i \in StreamIds |-> 0]
    /\ channel_progress = [i \in StreamIds |-> 0]
    /\ acquired = [i \in StreamIds |-> NoneHeld]
    /\ released = [i \in StreamIds |-> NoneHeld]
    /\ freed = FALSE
    /\ fopc = "idle"
    /\ m_loadInProgress = FALSE
    /\ m_waveformDataMutex = NoThread
    /\ store = EmptyStore
    /\ made = 0
    /\ hpc = "idle"
    /\ iwave = 0

LoadNext ==
    \/ LoadStart
    \/ \E i \in StreamIds : WorkerOpenFail(i)
    \/ \E i \in StreamIds : WorkerOpen(i)
    \/ \E i \in StreamIds : DecodeSparse(i)
    \/ \E i \in StreamIds : DecodeSparseEmpty(i)
    \/ \E i \in StreamIds : DecodeDense(i)
    \/ \E i \in StreamIds : DecodeUnknown(i)
    \/ \E i \in StreamIds : WorkerRelease(i)
    \/ \E i \in StreamIds : WorkerFinish(i)
    \/ WaitPoll
    \/ WaitDone
    \/ WaitJoin

\* ------------------------------------------------------------------ IDTable
\* the objects of a session: 1 .. MaxObjects; 0 is NULL
Objects == 1 .. MaxObjects

\* the ids a session file can hold for its channel, its decode, its area,
\* its group, its splitter, and one id that names nothing
FileId == [channel |-> 1, filter |-> 2, area |-> 3, group |-> 4, split |-> 5, missing |-> 6]

FileIds == 1 .. 6

\* IDTable table: no object has an id, no id has an object
EmptyTable ==
    [m_nextID |-> 1, ids |-> [o \in Objects |-> 0], objects |-> [i \in FileIds |-> "NULL"]]

\* a mutation of IdOf: the next id is handed out again
IdOfSameId(t, o) ==
    IF t.ids[o] # 0 THEN t ELSE [t EXCEPT !.ids[o] = t.m_nextID]

\* idOf(object): the table after table.emplace(o) or table[o]; an object
\* without an id is given the next one
IdOf(t, o) ==
    IF t.ids[o] # 0
    THEN t
    ELSE [t EXCEPT !.ids[o] = t.m_nextID, !.m_nextID = t.m_nextID + 1]

\* table.emplace(id, object) of a load
EmplaceId(t, id, obj) == [t EXCEPT !.objects[id] = obj]

\* objectOf(id): table[id] of a load, "NULL" for an id that was never emplaced
ObjectOf(t, id) == t.objects[id]

NoResult == [obj |-> 0, id |-> 0]

\* a file without references
NoCfg ==
    [decodeOk |-> TRUE, areaChannel |-> 1, overlay |-> 1, statsChannel |-> 1,
     groupArea |-> 1, child0 |-> 1, child1 |-> 1, top |-> 1]

\* SerializeUIConfiguration: table.emplace(area), table[area], table[chan.m_channel], ...
SerializeIdOf(o) ==
    /\ cfgpc = "save"
    /\ table' = IdOf(table, o)
    /\ order' = IF table.ids[o] = 0 THEN Append(order, o) ELSE order
    /\ result' = [obj |-> o, id |-> table'.ids[o]]
    /\ UNCHANGED << cfg, cfgpc, used, trigVars, filterVars, loadVars, recentVars >>

IdNext == \E o \in Objects : SerializeIdOf(o)

\* -------------------------------------- LoadDecodes and LoadUIConfiguration
\* the pointers a step adds to those dereferenced
Deref(ptrs) == used' = used \cup ptrs

\* LoadDecodes: the filter is created and emplaced, or skipped; in the second
\* pass LoadInputs is called on table[id] if it is not NULL
LoadDecodes ==
    /\ cfgpc = "decodes"
    /\ LET t == IF cfg.decodeOk THEN EmplaceId(table, FileId.filter, "filter") ELSE table
           filter == ObjectOf(t, FileId.filter)
       IN /\ table' = t
          /\ Deref(IF filter # "NULL" THEN {filter} ELSE {})
    /\ cfgpc' = "areas"
    /\ UNCHANGED << order, result, cfg, trigVars, filterVars, loadVars, recentVars >>

\* the area: skipped when its channel is NULL; its overlay is added when the
\* filter is not NULL
LoadAreas ==
    /\ cfgpc = "areas"
    /\ LET channel == ObjectOf(table, cfg.areaChannel)
           filter == ObjectOf(table, cfg.overlay)
       IN IF channel = "NULL"
          THEN UNCHANGED << table, used >>
          ELSE /\ table' = EmplaceId(table, FileId.area, "area")
               /\ Deref({channel} \cup (IF filter # "NULL" THEN {filter} ELSE {}))
    /\ cfgpc' = "groups"
    /\ UNCHANGED << order, result, cfg, trigVars, filterVars, loadVars, recentVars >>

\* the group: its frame is emplaced; table[channel] of a statistic goes to
\* EnableStats as it is; an area that is NULL is skipped
LoadGroups ==
    /\ cfgpc = "groups"
    /\ table' = EmplaceId(table, FileId.group, "frame")
    /\ LET area == ObjectOf(table', cfg.groupArea)
       IN Deref(IF area # "NULL" THEN {area} ELSE {})
    /\ cfgpc' = "splitters"
    /\ UNCHANGED << order, result, cfg, trigVars, filterVars, loadVars, recentVars >>

\* the splitter is emplaced; in the second loop its children are packed when
\* they are not NULL
LoadSplitters ==
    /\ cfgpc = "splitters"
    /\ table' = EmplaceId(table, FileId.split, "split")
    /\ LET split == ObjectOf(table', FileId.split)
           a == ObjectOf(table', cfg.child0)
           b == ObjectOf(table', cfg.child1)
       IN Deref({split} \cup (IF a # "NULL" THEN {a} ELSE {})
                        \cup (IF b # "NULL" THEN {b} ELSE {}))
    /\ cfgpc' = "top"
    /\ UNCHANGED << order, result, cfg, trigVars, filterVars, loadVars, recentVars >>

\* m_vbox.pack_start(*static_cast<Gtk::Paned*>(table[node["top"]]), ...)
TopPointers(top) == {top}

\* the top-level splitter is packed.  When table[top] is NULL the reference
\* is bound to address 0: the call faults, or it goes by unnoticed.
LoadTop ==
    /\ cfgpc = "top"
    /\ LET top == ObjectOf(table, cfg.top)
       IN /\ Deref(TopPointers(top))
          /\ IF "NULL" \in TopPointers(top)
                THEN cfgpc' \in {"crashed", "done"}
                ELSE cfgpc' = "done"
    /\ UNCHANGED << table, order, result, cfg, trigVars, filterVars, loadVars, recentVars >>

CfgNext ==
    \/ LoadDecodes
    \/ LoadAreas
    \/ LoadGroups
    \/ LoadSplitters
    \/ LoadTop

IdAtRest ==
    /\ table = EmptyTable
    /\ order = << >>
    /\ result = NoResult
    /\ cfg = NoCfg
    /\ cfgpc = "none"
    /\ used = {}

\* ----------------------------------------- AddCurrentToRecentlyUsedList
\* const int maxRecentInstruments = 10
maxRecentInstruments == 10

\* Timestamps: 0 and 1 are earlier than now, 2 is now (time(NULL) of this
\* call), 3 is later than now.
Times == 0 .. 3

now == 2

NoRecent == [t \in Times |-> 0]

RECURSIVE SizeUpTo(_, _)
SizeUpTo(list, t) == IF t < 0 THEN 0 ELSE list[t] + SizeUpTo(list, t - 1)

\* m_recentlyUsed.size()
Size(list) == SizeUpTo(list, 3)

\* The scan of the while loop's body: oldestTime starts at now and an entry
\* replaces it only if it.second < oldestTime; -1: no entry did, oldestPath is "".
OldestTime(list) ==
    IF \E t \in Times : t < now /\ list[t] > 0
    THEN CHOOSE t \in Times : /\ t < now /\ list[t] > 0
                              /\ \A u \in Times : (u < now /\ list[u] > 0) => t <= u
    ELSE -1

\* m_recentlyUsed.erase(oldestPath); no entry has the path "".
EraseOldest(list) ==
    IF OldestTime(list) < 0 THEN list ELSE [list EXCEPT ![OldestTime(list)] = @ - 1]

\* One instrument of the first loop that is not a MockOscilloscope:
\* m_recentlyUsed[connectionString] = now, on a new entry ...
RecentAddNew ==
    /\ rupc = "add"
    /\ toAdd > 0
    /\ m_recentlyUsed' = [m_recentlyUsed EXCEPT ![now] = @ + 1]
    /\ toAdd' = toAdd - 1
    /\ UNCHANGED << rupc, trigVars, filterVars, loadVars, idVars >>

\* ... or on an entry the list already has, with timestamp t.
RecentAddKnown(t) ==
    /\ rupc = "add"
    /\ toAdd > 0
    /\ m_recentlyUsed[t] > 0
    /\ m_recentlyUsed' = [[m_recentlyUsed EXCEPT ![t] = @ - 1] EXCEPT ![now] = @ + 1]
    /\ toAdd' = toAdd - 1
    /\ UNCHANGED << rupc, trigVars, filterVars, loadVars, idVars >>

\* The first loop is through.
RecentAdded ==
    /\ rupc = "add"
    /\ toAdd = 0
    /\ rupc' = "trim"
    /\ UNCHANGED << m_recentlyUsed, toAdd, trigVars, filterVars, loadVars, idVars >>

\* One iteration of while(m_recentlyUsed.size() > maxRecentInstruments).
RecentTrim ==
    /\ rupc = "trim"
    /\ Size(m_recentlyUsed) > maxRecentInstruments
    /\ m_recentlyUsed' = EraseOldest(m_recentlyUsed)
    /\ UNCHANGED << toAdd, rupc, trigVars, filterVars, loadVars, idVars >>

\* The loop condition fails: return.
RecentReturn ==
    /\ rupc = "trim"
    /\ Size(m_recentlyUsed) <= maxRecentInstruments
    /\ rupc' = "done"
    /\ UNCHANGED << m_recentlyUsed, toAdd, trigVars, filterVars, loadVars, idVars >>

RecentNext ==
    \/ RecentAddNew
    \/ \E t \in Times : RecentAddKnown(t)
    \/ RecentAdded
    \/ RecentTrim
    \/ RecentReturn

RecentAtRest ==
    /\ m_recentlyUsed = NoRecent
    /\ toAdd = 0
    /\ rupc = "idle"

\* ------------------------------------------------------------ specification
TwaitVals == -1 .. (FaultWindow + 1)

Init ==
    /\ nScopes \in 0 .. MaxScopes
    /\ offline \in [ScopeIds -> BOOLEAN]
    /\ \A i \in ScopeIds : i >= nScopes => ~offline[i]
    /\ scope = [i \in ScopeIds |-> IdleScope]
    /\ m_triggerArmed = FALSE
    /\ m_triggerOneShot = FALSE
    /\ m_multiScopeFreeRun = FALSE
    /\ twait \in TwaitVals
    /\ primaryAge = -1
    /\ armpc = [t \in Threads |-> "idle"]
    /\ armi = [t \in Threads |-> 0]
    /\ armType = [t \in Threads |-> "none"]
    /\ waited = [t \in Threads |-> 0]
    /\ armCmd = [t \in Threads |-> NoCmds]
    /\ armSeen = [t \in Threads |-> {}]
    /\ uipc = "ctor"
    /\ procpc = "poll"
    /\ waveformReady = FALSE
    /\ waveformProcessed = FALSE
    /\ stopped = FALSE
    /\ FilterAtRest
    /\ IdAtRest
    /\ RecentAtRest
    /\ LoadAtRest

Next ==
    \/ Construct /\ UNCHANGED << filterVars, loadVars, idVars, recentVars >>
    \/ (\E type \in Kinds : OnArm(type)) /\ UNCHANGED << filterVars, loadVars, idVars, recentVars >>
    \/ OnStop /\ UNCHANGED << filterVars, loadVars, idVars, recentVars >>
    \/ TimerProcess /\ UNCHANGED << filterVars, loadVars, idVars, recentVars >>
    \/ TimerRearm /\ UNCHANGED << filterVars, loadVars, idVars, recentVars >>
    \/ TimerDiscard /\ UNCHANGED << filterVars, loadVars, idVars, recentVars >>
    \/ (\E t \in Threads : ArmDrain(t)) /\ UNCHANGED << filterVars, loadVars, idVars, recentVars >>
    \/ (\E t \in Threads : ArmIssue(t)) /\ UNCHANGED << filterVars, loadVars, idVars, recentVars >>
    \/ (\E t \in Threads : ArmConfirmed(t)) /\ UNCHANGED << filterVars, loadVars, idVars, recentVars >>
    \/ (\E t \in Threads : ArmRetry(t)) /\ UNCHANGED << filterVars, loadVars, idVars, recentVars >>
    \/ PollReady /\ UNCHANGED << filterVars, loadVars, idVars, recentVars >>
    \/ PollFault /\ UNCHANGED << filterVars, loadVars, idVars, recentVars >>
    \/ DownloadWaveforms /\ UNCHANGED << filterVars, loadVars, idVars, recentVars >>
    \/ PollSignal /\ UNCHANGED << filterVars, loadVars, idVars, recentVars >>
    \/ PollResume /\ UNCHANGED << filterVars, loadVars, idVars, recentVars >>
    \/ (\E i \in ScopeIds : ScopeArmed(i)) /\ UNCHANGED << filterVars, loadVars, idVars, recentVars >>
    \/ (\E i \in ScopeIds : ScopeTrigger(i)) /\ UNCHANGED << filterVars, loadVars, idVars, recentVars >>
    \/ Tick /\ UNCHANGED << filterVars, loadVars, idVars, recentVars >>

Spec == Init /\ [][Next]_vars

\* The threads run and time passes; nothing obliges an instrument to arm or to
\* trigger.
FairSpec ==
    /\ Spec
    /\ WF_vars(Tick /\ UNCHANGED << filterVars, loadVars, idVars, recentVars >>)
    /\ \A t \in Threads :
          WF_vars(/\ ArmDrain(t) \/ ArmIssue(t) \/ ArmConfirmed(t) \/ ArmRetry(t)
                  /\ UNCHANGED << filterVars, loadVars, idVars, recentVars >>)

\* ------------------------------------- specification of RefreshAllFilters
\* the trigger coordination at rest: a window without instruments
TrigAtRest ==
    /\ nScopes = 0
    /\ offline = [i \in ScopeIds |-> FALSE]
    /\ scope = [i \in ScopeIds |-> IdleScope]
    /\ m_triggerArmed = FALSE
    /\ m_triggerOneShot = FALSE
    /\ m_multiScopeFreeRun = FALSE
    /\ twait = -1
    /\ primaryAge = -1
    /\ armpc = [t \in Threads |-> "idle"]
    /\ armi = [t \in Threads |-> 0]
    /\ armType = [t \in Threads |-> "none"]
    /\ waited = [t \in Threads |-> 0]
    /\ armCmd = [t \in Threads |-> NoCmds]
    /\ armSeen = [t \in Threads |-> {}]
    /\ uipc = "idle"
    /\ procpc = "poll"
    /\ waveformReady = FALSE
    /\ waveformProcessed = FALSE
    /\ stopped = FALSE

\* any graph of up to MaxFilters filters, each with up to MaxInputs inputs
\* among the filters (itself included) and the scope channels
FilterInit ==
    /\ TrigAtRest
    /\ LoadAtRest
    /\ IdAtRest
    /\ RecentAtRest
    /\ nFilters \in 0 .. MaxFilters
    /\ inputs \in [FilterIds -> InputSets \cup {{}}]
    /\ \A f \in FilterIds : f <= nFilters => inputs[f] \in InputSets
    /\ \A f \in FilterIds :
          IF f <= nFilters THEN inputs[f] \subseteq 0 .. nFilters ELSE inputs[f] = {}
    /\ dirty = {}
    /\ working = {}
    /\ blocks = << >>
    /\ fpc = "idle"
    /\ cur = 1
    /\ started = {}
    /\ finished = {}

FilterSpec == FilterInit /\ [][FilterNext]_vars

\* the thread in RefreshAllFilters and the workers of its parallel loop run
FilterFairSpec == FilterSpec /\ WF_vars(FilterNext)

\* ------------------------------ specifications of LoadWaveformDataForScope
ChannelTypes == {"analog", "digital"}

OffsetVals == {-1, 0, 1, 2}

DurationVals == {0, 1, 2}

SampleVals(kind) == IF kind = "analog" THEN {FloatZero, FloatOnePointFive} ELSE BOOLEAN

\* the waveforms of up to maxlen samples
Waves(kind, maxlen) ==
    UNION {[offsets : [1 .. n -> OffsetVals], durations : [1 .. n -> DurationVals],
            samples : [1 .. n -> SampleVals(kind)]] : n \in 0 .. maxlen}

\* no sample, or the one sample (0, 1, 1.5) / (0, 1, true)
ThinWaves(kind) ==
    {w \in Waves(kind, 1) :
        \A j \in 1 .. Len(w.samples) :
            /\ w.offsets[j] = 0
            /\ w.durations[j] = 1
            /\ w.samples[j] = (IF kind = "analog" THEN FloatOnePointFive ELSE TRUE)}

RichStreams ==
    UNION {[kind : {k}, format : Formats, openable : BOOLEAN,
            wave : Waves(k, MaxLen), trail : {0, MaxTrail}] : k \in ChannelTypes}

\* analog streams; the decoding of both kinds is followed under CodecSpec
ThinStreams ==
    {st \in [kind : {"analog"}, format : Formats, openable : BOOLEAN,
             wave : ThinWaves("analog"), trail : {0}] :
        st.format = "sparsev1" \/ Len(st.wave.samples) = 1}

LoadIdle ==
    /\ lpc = "setup"
    /\ wpc = [i \in StreamIds |-> "none"]
    /\ mapped = [i \in StreamIds |-> FALSE]
    /\ cap = [i \in StreamIds |-> EmptyCapture]
    /\ channel_done = [i \in StreamIds |-> 0]
    /\ channel_progress = [i \in StreamIds |-> 0]
    /\ acquired = [i \in StreamIds |-> NoneHeld]
    /\ released = [i \in StreamIds |-> NoneHeld]
    /\ freed = FALSE
    /\ fopc = "load"
    /\ m_loadInProgress = TRUE
    /\ m_waveformDataMutex = UiThread
    /\ store = EmptyStore
    /\ made = 0
    /\ hpc = "idle"
    /\ iwave = 1

\* one stream, any waveform of up to MaxLen samples behind its body file
CodecInit ==
    /\ TrigAtRest
    /\ FilterAtRest
    /\ IdAtRest
    /\ RecentAtRest
    /\ nStreams = 1
    /\ \E st \in RichStreams :
          stream = [i \in StreamIds |-> IF i = 1 THEN st ELSE NoStream]
    /\ LoadIdle

CodecSpec == CodecInit /\ [][LoadNext]_vars

\* up to MaxStreams streams of one saved waveform
LoadInit ==
    /\ TrigAtRest
    /\ FilterAtRest
    /\ IdAtRest
    /\ RecentAtRest
    /\ nStreams \in 1 .. MaxStreams
    /\ \E sts \in [StreamIds -> ThinStreams] :
          stream = [i \in StreamIds |-> IF i <= nStreams THEN sts[i] ELSE NoStream]
    /\ LoadIdle

LoadSpec == LoadInit /\ [][LoadNext]_vars

\* what worker i does next
Worker(i) ==
    \/ WorkerOpenFail(i)
    \/ WorkerOpen(i)
    \/ DecodeSparse(i)
    \/ DecodeSparseEmpty(i)
    \/ DecodeDense(i)
    \/ DecodeUnknown(i)
    \/ WorkerRelease(i)
    \/ WorkerFinish(i)

\* every worker thread runs, and so does the loading thread
LoadFairSpec ==
    /\ LoadSpec
    /\ \A i \in StreamIds : WF_vars(Worker(i))
    /\ WF_vars(LoadStart \/ WaitDone \/ WaitJoin)

\* ------------------------------------------------------------- DoFileOpen
\* no worker thread, nothing mapped, no arrays
NoWorkers ==
    /\ wpc' = [i \in StreamIds |-> "none"]
    /\ mapped' = [i \in StreamIds |-> FALSE]
    /\ cap' = [i \in StreamIds |-> EmptyCapture]
    /\ channel_done' = [i \in StreamIds |-> 0]
    /\ channel_progress' = [i \in StreamIds |-> 0]
    /\ acquired' = [i \in StreamIds |-> NoneHeld]
    /\ released' = [i \in StreamIds |-> NoneHeld]
    /\ freed' = FALSE

\* a mutation of FileOpenEnter: the session data lock is not taken
FileOpenEnterNoLock ==
    /\ fopc = "idle"
    /\ fopc' = "close"
    /\ m_loadInProgress' = TRUE
    /\ UNCHANGED << nStreams, stream, lpc, workVars, store, made, m_waveformDataMutex,
                    hpc, iwave, trigVars, filterVars, idVars, recentVars >>

\* lock_guard lock(m_waveformDataMutex); m_loadInProgress = true
FileOpenEnter ==
    /\ fopc = "idle"
    /\ m_waveformDataMutex = NoThread
    /\ m_waveformDataMutex' = UiThread
    /\ fopc' = "close"
    /\ m_loadInProgress' = TRUE
    /\ UNCHANGED << nStreams, stream, lpc, workVars, store, made, hpc, iwave,
                    trigVars, filterVars, idVars, recentVars >>

\* CloseSession(): the scope threads end, the scopes are deleted
FileOpenClose ==
    /\ fopc = "close"
    /\ fopc' = "parse"
    /\ store' = CloseStore(store)
    /\ UNCHANGED << nStreams, stream, lpc, workVars, made, m_loadInProgress,
                    m_waveformDataMutex, hpc, iwave, trigVars, filterVars, idVars, recentVars >>

\* YAML::LoadAllFromFile throws YAML::BadFile: the dialog, and return
FileOpenBadFile ==
    /\ fopc = "parse"
    /\ fopc' = "idle"
    /\ m_waveformDataMutex' = NoThread
    /\ UNCHANGED << nStreams, stream, lpc, workVars, store, made, m_loadInProgress,
                    hpc, iwave, trigVars, filterVars, idVars, recentVars >>

\* the file is read, loadWaveform is set: LoadWaveformData enters
\* LoadWaveformDataForScope, which clears the slots and comes to the first
\* saved waveform
FileOpenLoad ==
    /\ fopc = "parse"
    /\ fopc' = "load"
    /\ \E n \in 1 .. MaxStreams, sts \in [StreamIds -> ThinStreams] :
          /\ nStreams' = n
          /\ stream' = [i \in StreamIds |-> IF i <= n THEN sts[i] ELSE NoStream]
          /\ store' = ClearAll(store, n)
    /\ lpc' = "setup"
    /\ iwave' = 1
    /\ NoWorkers
    /\ UNCHANGED << made, m_loadInProgress, m_waveformDataMutex, hpc, trigVars, filterVars, idVars, recentVars >>

\* the file is read and no waveform data is loaded: loadWaveform is not set,
\* or LoadWaveformData throws YAML::BadFile, which is caught
FileOpenNoWaveforms ==
    /\ fopc = "parse"
    /\ fopc' = "complete"
    /\ UNCHANGED << nStreams, stream, lpc, workVars, store, made, m_loadInProgress,
                    m_waveformDataMutex, hpc, iwave, trigVars, filterVars, idVars, recentVars >>

\* for(auto it : wavenode): the next saved waveform
LoadNextWaveform ==
    /\ fopc = "load"
    /\ lpc = "finished"
    /\ iwave < MaxSaved
    /\ iwave' = iwave + 1
    /\ lpc' = "setup"
    /\ NoWorkers
    /\ UNCHANGED << nStreams, stream, store, made, fopc, m_loadInProgress,
                    m_waveformDataMutex, hpc, trigVars, filterVars, idVars, recentVars >>

\* OnLoadComplete(): the scope threads start, m_loadInProgress = false; return
FileOpenComplete ==
    /\ \/ fopc = "load" /\ lpc = "finished"
       \/ fopc = "complete"
    /\ fopc' = "idle"
    /\ m_loadInProgress' = FALSE
    /\ m_waveformDataMutex' = NoThread
    /\ UNCHANGED << nStreams, stream, lpc, workVars, store, made, hpc, iwave,
                    trigVars, filterVars, idVars, recentVars >>

\* OnTimer while m_loadInProgress: return true, nothing is polled
TimerSkipped ==
    /\ m_loadInProgress
    /\ UNCHANGED vars

\* --------------------------------------------------- import into the session
\* the importing call takes the session data lock
ImportLock ==
    /\ fopc = "idle"
    /\ ~m_loadInProgress
    /\ m_waveformDataMutex = NoThread
    /\ m_waveformDataMutex' = UiThread
    /\ fopc' = "import"
    /\ UNCHANGED << nStreams, stream, lpc, workVars, store, made, m_loadInProgress,
                    hpc, iwave, trigVars, filterVars, idVars, recentVars >>

\* SetupExistingSessionForImport detaches every stream of m_scopes[0]; the
\* importer installs the imported waveforms
ImportExisting ==
    /\ fopc = "import"
    /\ made + MaxStreams <= MaxWaveforms
    /\ store' = InstallFresh(DetachAll(store, MaxStreams), MaxStreams, made)
    /\ made' = made + MaxStreams
    /\ m_waveformDataMutex' = NoThread
    /\ fopc' = "idle"
    /\ UNCHANGED << nStreams, stream, lpc, workVars, m_loadInProgress, hpc, iwave,
                    trigVars, filterVars, idVars, recentVars >>

\* ---------------------------------------- DownloadWaveforms, slot by slot
\* the processing thread, started by OnLoadComplete and ended by CloseSession:
\* lock_guard lock(m_waveformDataMutex)
HarvestLock ==
    /\ hpc = "idle"
    /\ ~m_loadInProgress
    /\ m_waveformDataMutex = NoThread
    /\ m_waveformDataMutex' = ProcThread
    /\ hpc' = "locked"
    /\ UNCHANGED << nStreams, stream, lpc, workVars, store, made, fopc, m_loadInProgress,
                    iwave, trigVars, filterVars, idVars, recentVars >>

\* every stream of the online scope is detached; PopPendingWaveform installs
\* the new waveforms; return
HarvestScopes ==
    /\ hpc = "locked"
    /\ made + MaxStreams <= MaxWaveforms
    /\ store' = InstallFresh(DetachAll(store, MaxStreams), MaxStreams, made)
    /\ made' = made + MaxStreams
    /\ m_waveformDataMutex' = NoThread
    /\ hpc' = "idle"
    /\ UNCHANGED << nStreams, stream, lpc, workVars, fopc, m_loadInProgress, iwave,
                    trigVars, filterVars, idVars, recentVars >>

FileNext ==
    \/ FileOpenEnter
    \/ FileOpenClose
    \/ FileOpenBadFile
    \/ FileOpenLoad
    \/ FileOpenNoWaveforms
    \/ LoadNextWaveform
    \/ FileOpenComplete
    \/ TimerSkipped
    \/ ImportLock
    \/ ImportExisting
    \/ HarvestLock
    \/ HarvestScopes
    \/ LoadNext

\* one serialization pass: a new table, any sequence of idOf calls
IdInit ==
    /\ TrigAtRest
    /\ FilterAtRest
    /\ LoadAtRest
    /\ RecentAtRest
    /\ table = EmptyTable
    /\ order = << >>
    /\ result = NoResult
    /\ cfg = NoCfg
    /\ cfgpc = "save"
    /\ used = {}

IdSpec == IdInit /\ [][IdNext]_vars

\* a reference of the file: the id it should hold, or the id of nothing
Ref(id) == {id, FileId.missing}

\* one load: the channel is in the table (LoadInstruments), the file holds
\* any combination of good and dangling references
CfgInit ==
    /\ TrigAtRest
    /\ FilterAtRest
    /\ LoadAtRest
    /\ RecentAtRest
    /\ table = EmplaceId(EmptyTable, FileId.channel, "channel")
    /\ order = << >>
    /\ result = NoResult
    /\ cfg \in [decodeOk : BOOLEAN, areaChannel : Ref(FileId.channel),
                 overlay : Ref(FileId.filter), statsChannel : Ref(FileId.channel),
                 groupArea : Ref(FileId.area), child0 : Ref(FileId.group),
                 child1 : Ref(FileId.area), top : Ref(FileId.split)]
    /\ cfgpc = "decodes"
    /\ used = {}

CfgSpec == CfgInit /\ [][CfgNext]_vars

\* a window with a session and no call in progress
FileInit ==
    /\ TrigAtRest
    /\ FilterAtRest
    /\ IdAtRest
    /\ RecentAtRest
    /\ LoadAtRest

FileSpec == FileInit /\ [][FileNext]_vars

\* ------------------------- specification of AddCurrentToRecentlyUsedList
\* The call begins: a list of any contents, any number of instruments to add.
RecentInit ==
    /\ TrigAtRest
    /\ FilterAtRest
    /\ IdAtRest
    /\ LoadAtRest
    /\ m_recentlyUsed \in [Times -> 0 .. MaxRecent]
    /\ Size(m_recentlyUsed) <= MaxRecent
    /\ toAdd \in 0 .. MaxConnected
    /\ rupc = "add"

RecentSpec == RecentInit /\ [][RecentNext]_vars

\* The call runs: a single thread, nothing it waits for.
RecentFairSpec == RecentSpec /\ WF_vars(RecentNext)

\* ------------------------------------------------------------------ claims
Secondaries == 1 .. (nScopes - 1)

\* The step of thread t's ArmTrigger that issues the arm command of m_scopes[armi[t]].
IssueStep(t) == armpc[t] = "arm" /\ armpc'[t] # "arm"

\* The step of thread t's ArmTrigger that runs the multi-scope drain loop.
DrainStep(t) == armpc[t] = "drain" /\ armpc'[t] = "arm"

\* Thread t's ArmTrigger issues some command to instrument 0 in this step.
CommandToPrimary(t) ==
    \/ IssueStep(t) /\ armi[t] = 0
    \/ DrainStep(t) /\ (PeekTriggerArmed(scope[0]) \/ HasPendingWaveforms(scope[0]))

SecondariesSingleShot(t) == \A j \in Secondaries : armCmd[t][j] = "StartSingleTrigger"

\* C1 as stated: in an ArmTrigger(NORMAL) on N>1 instruments every secondary has
\* been issued StartSingleTrigger before any command at all (Stop and
\* ClearPendingWaveforms included) is issued to instrument 0.
C1_NoCommandToPrimaryFirst ==
    [][\A t \in Threads :
          (CommandToPrimary(t) /\ armType[t] = "NORMAL" /\ nScopes > 1)
             => SecondariesSingleShot(t)]_vars

\* C1 amended: in an ArmTrigger(NORMAL) on N>1 instruments every secondary has
\* been issued StartSingleTrigger before the arm command of instrument 0 is
\* issued; the drain loop may stop and clear instrument 0 earlier.
C1_SecondariesArmedFirst ==
    [][\A t \in Threads :
          (IssueStep(t) /\ armi[t] = 0 /\ armType[t] = "NORMAL" /\ nScopes > 1)
             => SecondariesSingleShot(t)]_vars

\* A NORMAL multi-scope arm by the UI thread has run to its end.
C1_Witness ==
    /\ nScopes > 1
    /\ armType["ui"] = "NORMAL"
    /\ armpc["ui"] = "idle"
    /\ armCmd["ui"][0] = "StartSingleTrigger"
    /\ SecondariesSingleShot("ui")

\* C2: in every ArmTrigger on N>1 instruments the arm commands go out in
\* strictly decreasing index order, and the one of instrument i only after every
\* instrument of higher index has had its arm command and reported
\* PeekTriggerArmed = true; so the primary is armed last, after all secondaries.
C2_ArmOrder ==
    [][\A t \in Threads :
          (IssueStep(t) /\ nScopes > 1)
             => /\ \A j \in Scopes :
                      j > armi[t] => (armCmd[t][j] \in ArmCmds /\ j \in armSeen[t])
                /\ \A j \in Scopes : j <= armi[t] => armCmd[t][j] = "none"
                /\ armCmd'[t][armi[t]] \in ArmCmds]_vars

\* The primary has been armed after every secondary reported armed.
C2_Witness ==
    /\ nScopes > 1
    /\ armCmd["ui"][0] \in ArmCmds
    /\ armSeen["ui"] = Secondaries
    /\ \A j \in Secondaries : armCmd["ui"][j] \in ArmCmds

\* C3 as stated: a poll made in free-run mode when instrument 0 has had pending
\* data for more than FaultWindow seconds and another online instrument still has
\* none takes the fault branch (stop all, clear, re-arm).
C3_FaultWindowRecovers ==
    ( /\ procpc = "poll"
      /\ m_triggerArmed
      /\ m_multiScopeFreeRun
      /\ ~offline[0]
      /\ HasPendingWaveforms(scope[0])
      /\ primaryAge > FaultWindow
      /\ \E j \in Secondaries : ~offline[j] /\ ~HasPendingWaveforms(scope[j]) )
    => CheckResult = "fault"

\* The step in which the processing thread runs DownloadWaveforms.
DownloadStep == procpc = "download" /\ procpc' # "download"

\* C4 as stated: with an online instrument, no harvest happens while an online
\* instrument lacks pending data.
C4_HarvestOnlyWhenAllPending ==
    [][(DownloadStep /\ HasOnlineScopes) => AllOnlinePending]_vars

\* C5 as stated: a multi-instrument harvest pops exactly one waveform from each
\* online instrument, none of them produced before that instrument's arm
\* command of the current arm cycle.
C5_HarvestOneFreshEach ==
    [][(DownloadStep /\ nScopes > 1)
          => \A i \in Scopes :
                ~offline[i] => /\ scope[i].pending >= 1
                               /\ scope[i].stale = 0
                               /\ scope'[i].pending = scope[i].pending - 1]_vars

\* No operation is in flight on either thread.
Quiescent ==
    /\ uipc = "idle"
    /\ armpc["ui"] = "idle"
    /\ armpc["proc"] = "idle"
    /\ procpc \in {"poll", "block"}

\* C6 as stated: once an OnStop and every operation in flight have finished, and
\* no arm was requested since, no instrument is armed or holds a pending
\* waveform and m_triggerArmed is false.
C6_StopLeavesDrained ==
    (stopped /\ Quiescent)
       => /\ ~m_triggerArmed
          /\ \A i \in Scopes : scope[i].run = "stop" /\ scope[i].pending = 0

\* C7: an OnStop call leaves every instrument of the session, offline ones
\* included, stopped with an empty pending queue, and leaves m_triggerArmed and
\* m_multiScopeFreeRun false, whatever the state it starts in.
C7_OnStopEffect ==
    [][OnStop => /\ \A i \in Scopes :
                       scope'[i] = ClearPendingWaveforms(Stop(scope[i]))
                 /\ \A i \in Scopes : scope'[i].run = "stop" /\ scope'[i].pending = 0
                 /\ ~m_triggerArmed'
                 /\ ~m_multiScopeFreeRun']_vars

\* OnStop has run on a session with an offline instrument beside an online one.
C7_Witness ==
    /\ stopped
    /\ nScopes > 1
    /\ \E i \in Scopes : offline[i]
    /\ \E i \in Scopes : ~offline[i]
    /\ ~m_triggerArmed
    /\ \A i \in Scopes : scope[i].run = "stop" /\ scope[i].pending = 0

\* C8 as stated: every ArmTrigger call returns.
C8_ArmTriggerTerminates ==
    \A t \in Threads : (armpc[t] # "idle") ~> (armpc[t] = "idle")

\* The arm command C9 gives for instrument i of n under the requested kind.
C9_Expected(i, n, kind) ==
    IF i > 0 THEN "StartSingleTrigger"
    ELSE IF kind = "NORMAL" /\ n = 1 THEN "Start"
    ELSE IF kind = "NORMAL" THEN "StartSingleTrigger"
    ELSE IF kind = "SINGLE" THEN "StartSingleTrigger"
    ELSE "ForceTrigger"

\* C9: every arm command an ArmTrigger call has issued is the one the table
\* gives for (N, kind, index), and a call that has returned with an online
\* instrument present has issued one to every instrument.
C9_ArmCommandTable ==
    \A t \in Threads :
       /\ \A i \in Scopes :
             armCmd[t][i] # "none" => armCmd[t][i] = C9_Expected(i, nScopes, armType[t])
       /\ (armpc[t] = "idle" /\ armType[t] # "none" /\ HasOnlineScopes)
             => \A i \in Scopes : armCmd[t][i] = C9_Expected(i, nScopes, armType[t])

\* A FORCED arm of several instruments has returned: ForceTrigger to the
\* primary, StartSingleTrigger to the secondaries.
C9_Witness ==
    /\ nScopes > 1
    /\ armType["ui"] = "FORCED"
    /\ armpc["ui"] = "idle"
    /\ armCmd["ui"][0] = "ForceTrigger"
    /\ \A j \in Secondaries : armCmd["ui"][j] = "StartSingleTrigger"

\* The step in which thread t's ArmTrigger call returns.
ReturnStep(t) ==
    \/ IssueStep(t) /\ armi[t] = 0
    \/ ~HasOnlineScopes /\ \E type \in Kinds : ArmEnter(t, type)

\* C10 as stated: after any ArmTrigger call free-run mode is on iff the kind is
\* not one-shot and there is more than one instrument.
C10_FreeRunAfterArm ==
    [][\A t \in Threads :
          ReturnStep(t)
             => (m_multiScopeFreeRun' <=> (~OneShot(armType'[t]) /\ nScopes > 1))]_vars

\* The step in which thread t's ArmTrigger call, an instrument being online,
\* sets its flags.
EnterStep(t) == armpc[t] = "idle" /\ armpc'[t] # "idle"

\* C10 amended: an ArmTrigger call with an online instrument sets
\* m_multiScopeFreeRun, before it issues any command, to (kind not one-shot and
\* N > 1) and does not write it again; with no online instrument the call
\* leaves it as it is, which is false.
C10_FreeRunSetAtEntry ==
    [][/\ \A t \in Threads :
             EnterStep(t)
                => (m_multiScopeFreeRun' <=> (~OneShot(armType'[t]) /\ nScopes > 1))
       /\ \A t \in Threads :
             (armpc[t] # "idle" /\ armpc'[t] # armpc[t] /\ uipc' = uipc
                /\ stopped' = stopped /\ armpc' = [armpc EXCEPT ![t] = armpc'[t]])
                => UNCHANGED m_multiScopeFreeRun
       /\ ~HasOnlineScopes => (~m_multiScopeFreeRun /\ ~m_multiScopeFreeRun')]_vars

\* ArmTrigger(NORMAL) has returned on several instruments, all offline: the
\* trigger is armed and free-run mode is off.
C10_Witness ==
    /\ nScopes > 1
    /\ ~HasOnlineScopes
    /\ armType["ui"] = "NORMAL"
    /\ m_triggerArmed
    /\ ~m_multiScopeFreeRun

\* ------------------------------------------------ claims: RefreshAllFilters
\* the filters reached from the set S by following inputs k times
RECURSIVE Upstream(_, _)
Upstream(S, k) ==
    IF k = 0 THEN S
    ELSE Upstream(S \cup UNION {inputs[g] \cap Filters : g \in S}, k - 1)

\* the filters f depends on, directly or through other filters
Ancestors(f) == Upstream(inputs[f] \cap Filters, nFilters)

Acyclic == \A f \in Filters : f \notin Ancestors(f)

OnCycle == {f \in Filters : f \in Ancestors(f)}

\* the filters on a cycle or depending on one
OnOrDownstream == {f \in Filters : f \in OnCycle \/ Ancestors(f) \cap OnCycle # {}}

BlocksOf(f) == {b \in 1 .. Len(blocks) : f \in blocks[b]}

Invocations(f) == Cardinality({p \in started : p[2] = f})

Completed(f) == \E p \in finished : p[2] = f

\* the leveling loop has ended and the blocks are being evaluated
LevelingDone == fpc = "eval"

\* C11: for an acyclic graph the block list built by RefreshAllFilters holds
\* every filter instance in exactly one block, and every filter that is an
\* input of another is in a block of strictly lower index.
C11_BlocksPartitionInOrder ==
    (Acyclic /\ LevelingDone) =>
        \A f \in Filters :
            /\ Cardinality(BlocksOf(f)) = 1
            /\ \A g \in inputs[f] \cap Filters :
                  \A bf \in BlocksOf(f) : \A bg \in BlocksOf(g) : bg < bf

C11_Witness ==
    /\ Acyclic
    /\ LevelingDone
    /\ nFilters >= 3
    /\ Len(blocks) = 2
    /\ \E b \in 1 .. Len(blocks) : Cardinality(blocks[b]) >= 2
    /\ \E f \in Filters : Cardinality(inputs[f] \cap Filters) >= 2

\* C12: in a RefreshAllFilters call on an acyclic graph RefreshIfDirty is
\* invoked at most once per filter at any moment and exactly once by the end,
\* and a filter whose evaluation has started has every filter input's
\* evaluation completed, whatever the order of the workers within a block.
C12_EvaluatedOnceAfterInputs ==
    Acyclic =>
        /\ \A f \in Filters :
              /\ Invocations(f) <= 1
              /\ Invocations(f) = 1 => \A g \in inputs[f] \cap Filters : Completed(g)
        /\ (fpc = "eval" /\ cur > Len(blocks)) =>
              \A f \in Filters : Invocations(f) = 1 /\ Completed(f) /\ f \notin dirty

C12_Witness ==
    /\ Acyclic
    /\ fpc = "eval"
    /\ cur > Len(blocks)
    /\ nFilters >= 3
    /\ \E f \in Filters : inputs[f] \cap Filters # {}
    /\ \E b \in 1 .. Len(blocks) : Cardinality(blocks[b]) >= 2
    /\ \A f \in Filters : Completed(f)

\* C13: for an acyclic graph of n filters the leveling loop appends at most n
\* blocks, none of them empty, and ends with an empty working set.
C13_LevelingTerminates ==
    /\ [](Acyclic =>
            /\ Len(blocks) <= nFilters
            /\ \A b \in 1 .. Len(blocks) : blocks[b] # {})
    /\ ((Acyclic /\ fpc = "level") ~> (fpc = "eval" /\ working = {}))

C13_Witness ==
    /\ Acyclic
    /\ LevelingDone
    /\ working = {}
    /\ nFilters >= 3
    /\ Len(blocks) = nFilters

\* C14: with a dependency cycle in the graph (a filter that is its own input
\* included) a RefreshAllFilters call stays in the leveling loop: the filters
\* on or downstream of the cycle stay in the working set and in no block, and
\* no filter's evaluation is started.
C14_CycleNeverLevels ==
    (~Acyclic /\ fpc # "idle") =>
        /\ fpc = "level"
        /\ OnOrDownstream # {}
        /\ OnOrDownstream \subseteq working
        /\ \A f \in OnOrDownstream : BlocksOf(f) = {}
        /\ started = {}

C14_Witness ==
    /\ ~Acyclic
    /\ fpc = "level"
    /\ Len(blocks) >= 3
    /\ blocks[1] # {}
    /\ blocks[Len(blocks)] = {}
    /\ \E f \in OnOrDownstream : f \notin OnCycle
    /\ \E f \in Filters : f \in inputs[f]

\* -------------------------------------- claims: DoLoadWaveformDataForScope
\* worker i has gone through the decoding of its buffer
Decoded(i) == i \in Streams /\ stream[i].openable /\ wpc[i] \in {"release", "progress", "exit"}

\* worker i has reached the decoding of its buffer and gone through it or died in it
DecodeAttempted(i) ==
    /\ i \in Streams
    /\ stream[i].openable
    /\ wpc[i] \in {"release", "progress", "exit", "crashed", "died"}

SameSamples(c, w) ==
    /\ c.m_offsets = w.offsets
    /\ c.m_durations = w.durations
    /\ c.m_samples = w.samples

\* offsets [0, 1, ..., n-1] and all durations 1
Contiguous(w) ==
    \A j \in 1 .. Len(w.samples) : w.offsets[j] = j - 1 /\ w.durations[j] = 1

HasGap(w) ==
    \E j \in 1 .. (Len(w.samples) - 1) : w.offsets[j] + w.durations[j] < w.offsets[j + 1]

HasOverlap(w) ==
    \E j \in 1 .. (Len(w.samples) - 1) : w.offsets[j] + w.durations[j] > w.offsets[j + 1]

\* every sample lasts at least one unit and ends before the next one starts
NonOverlapping(w) ==
    /\ \A j \in 1 .. Len(w.samples) : w.durations[j] >= 1
    /\ ~HasOverlap(w)

\* C15: a waveform of any kind and length written as sparsev1 and decoded
\* comes back with the same offsets, durations and values.
C15_SparseRoundTrip ==
    \A i \in StreamIds :
        (DecodeAttempted(i) /\ stream[i].format = "sparsev1" /\ stream[i].trail = 0) =>
            /\ wpc[i] # "crashed"
            /\ SameSamples(cap[i], stream[i].wave)

\* C16: a waveform written as densev1 and decoded has offset[i] = i and
\* duration[i] = 1 for every sample index i, the written values, as many
\* samples as the byte length divided by the value size, and is marked dense
\* packed.
C16_DenseReconstruction ==
    \A i \in StreamIds :
        (Decoded(i) /\ stream[i].format = "densev1") =>
            /\ cap[i].m_densePacked
            /\ Len(cap[i].m_samples) = Len(Body(i)) \div ValueSize(stream[i].kind)
            /\ Len(cap[i].m_offsets) = Len(cap[i].m_samples)
            /\ Len(cap[i].m_durations) = Len(cap[i].m_samples)
            /\ \A j \in 1 .. Len(cap[i].m_samples) :
                  cap[i].m_offsets[j] = j - 1 /\ cap[i].m_durations[j] = 1
            /\ stream[i].trail = 0 => cap[i].m_samples = stream[i].wave.samples

C16_Witness ==
    \E i \in Streams :
        /\ Decoded(i)
        /\ stream[i].format = "densev1"
        /\ stream[i].kind = "analog"
        /\ stream[i].trail = 0
        /\ Len(cap[i].m_samples) >= 2
        /\ cap[i].m_samples[2] = FloatOnePointFive
        /\ ~Contiguous(stream[i].wave)

\* C17 as stated: decoded from sparsev1, a waveform of offsets [0..n-1] and
\* durations 1 is marked dense packed, and a waveform with any gap or overlap
\* between samples is not.
C17_DensePackedDetection ==
    \A i \in StreamIds :
        (Decoded(i) /\ stream[i].format = "sparsev1" /\ Len(cap[i].m_samples) >= 1) =>
            /\ Contiguous(stream[i].wave) => cap[i].m_densePacked
            /\ (HasGap(stream[i].wave) \/ HasOverlap(stream[i].wave)) => ~cap[i].m_densePacked

\* C17 amended: decoded from sparsev1, a waveform of n >= 1 samples is marked
\* dense packed exactly when its first offset is 0, its last offset n-1 and its
\* last duration 1; so offsets [0..n-1] with durations 1 are marked, and a
\* waveform of non-overlapping samples of duration at least 1 with a gap is not.
C17_DensePackedEndpoints ==
    \A i \in StreamIds :
        (Decoded(i) /\ stream[i].format = "sparsev1" /\ Len(cap[i].m_samples) >= 1) =>
            LET w == stream[i].wave
                n == Len(w.samples)
            IN  /\ cap[i].m_densePacked <=>
                      (w.offsets[1] = 0 /\ w.offsets[n] = n - 1 /\ w.durations[n] = 1)
                /\ Contiguous(w) => cap[i].m_densePacked
                /\ (NonOverlapping(w) /\ HasGap(w)) => ~cap[i].m_densePacked

C17_Witness ==
    \E i \in Streams :
        /\ Decoded(i)
        /\ stream[i].format = "sparsev1"
        /\ Len(cap[i].m_samples) >= 2
        /\ NonOverlapping(stream[i].wave)
        /\ HasGap(stream[i].wave)
        /\ stream[i].wave.offsets[1] = 0
        /\ ~cap[i].m_densePacked

\* C18: a sparsev1 buffer of L bytes decodes to floor(L / R) samples, R being
\* 20 for an analog and 17 for a digital channel, the bytes of a partial last
\* record being ignored without error; the 24 bytes of (0, 1, 1.5) and four
\* more decode to one sample 1.5, dense packed.
C18_SparseRecordCount ==
    \A i \in StreamIds :
        (DecodeAttempted(i) /\ stream[i].format = "sparsev1") =>
            /\ wpc[i] # "crashed"
            /\ Len(cap[i].m_samples) = Len(Body(i)) \div SampleSize(stream[i].kind)
            /\ (/\ stream[i].kind = "analog"
                /\ Len(Body(i)) = 24
                /\ stream[i].wave.offsets = << 0 >>
                /\ stream[i].wave.durations = << 1 >>
                /\ stream[i].wave.samples = << FloatOnePointFive >>) =>
                   /\ cap[i].m_samples = << FloatOnePointFive >>
                   /\ cap[i].m_densePacked

\* ---------------------------------------- claims: LoadWaveformDataForScope
UnknownFormat(i) == i \in Streams /\ stream[i].format \notin {"sparsev1", "densev1"}

AllOpenable == \A j \in Streams : stream[j].openable

\* some worker decodes a sparsev1 buffer without a whole record
CanFault ==
    \E j \in Streams :
        /\ stream[j].openable
        /\ stream[j].format = "sparsev1"
        /\ Len(Body(j)) \div SampleSize(stream[j].kind) = 0

C20_UnopenedStreamSkipped ==
    (lpc = "wait" /\ \A i \in Streams : wpc[i] = "exit") => AllDone
\* --------------------------------------------- claims: the loader's resources
\* worker i has returned from DoLoadWaveformDataForScope
Returned(i) == i \in Streams /\ wpc[i] = "exit"

SlotAccess(i) ==
    \/ wpc[i] = "open" /\ wpc'[i] = "decode"
    \/ wpc[i] = "release" /\ wpc'[i] = "progress"
    \/ wpc[i] = "progress" /\ wpc'[i] # "progress"

\* C26: no loader thread reads or writes its progress slot or its done slot
\* once the loading thread has deleted channel_progress and channel_done,
\* however the threads and the wait loop interleave.
C26_NoSlotAccessAfterFree ==
    [][\A i \in StreamIds : SlotAccess(i) => ~freed]_vars
\* ------------------------------------------------------- claims: DoFileOpen
\* C27: every call of DoFileOpen leaves m_loadInProgress = false behind, also
\* when the session file cannot be read, so that OnTimer polls again: the UI
\* thread is never back from DoFileOpen with the flag still set.
C27_LoadInProgressCleared ==
    fopc = "idle" => ~m_loadInProgress
\* ------------------------------------------ claims: the session data lock
\* the UI thread installs or detaches waveforms in this step
UiWrite ==
    \/ fopc = "parse" /\ fopc' = "load"
    \/ lpc = "setup" /\ lpc' = "wait"
    \/ fopc = "import" /\ fopc' = "idle"

\* the processing thread detaches and installs waveforms in this step
ProcWrite == hpc = "locked" /\ hpc' = "idle"

\* loader thread i fills the sample arrays of its waveform in this step
LoaderWrite(i) ==
    /\ wpc[i] = "decode"
    /\ wpc'[i] # "decode"
    /\ stream[i].format \in {"sparsev1", "densev1"}

\* loader thread i is running
Running(i) == wpc[i] \in {"open", "decode", "release", "progress"}

Replaced(s) ==
    /\ store.slot[s] # 0
    /\ store'.slot[s] # 0
    /\ store'.slot[s] # store.slot[s]

\* C24: through harvests, imports and file loads a slot holds one waveform
\* or none and no waveform is in two slots; where a new waveform is installed
\* over one that is there (harvest, import into the session, setup of a saved
\* waveform during a load) the old one has been detached first, so that it is
\* not destroyed, and no slot holds a destroyed waveform.
C24_DetachedBeforeReplaced ==
    /\ [](\A s \in StreamIds :
            /\ store.slot[s] \in 0 .. made
            /\ store.slot[s] \notin store.destroyed
            /\ \A t \in StreamIds :
                  (s # t /\ store.slot[s] # 0) => store.slot[s] # store.slot[t])
    /\ [][\A s \in StreamIds : Replaced(s) => store.slot[s] \notin store'.destroyed]_vars

\* two harvests or imports, or a load of two saved waveforms: the waveforms
\* of the first round have been replaced and none is destroyed
C24_Witness ==
    /\ made > MaxStreams
    /\ store.destroyed = {}
    /\ \E s \in StreamIds : store.slot[s] > MaxStreams
\* ------------------------------------------------------- claims: IDTable
\* C22: within one serialization pass the table is a bijection: after any
\* sequence of idOf calls every object has one id only (an id once given never
\* changes, and idOf returns it again), different objects have different ids,
\* and the ids rise strictly in the order of the first lookups.
C22_IdTableBijection ==
    /\ [](\A o, q \in Objects :
            (o # q /\ table.ids[o] # 0) => table.ids[o] # table.ids[q])
    /\ [](result.obj # 0 => (result.id # 0 /\ result.id = table.ids[result.obj]))
    /\ [](\A i, j \in 1 .. Len(order) :
            i < j => table.ids[order[i]] < table.ids[order[j]])
    /\ [](\A o \in Objects : table.ids[o] # 0 <=> \E i \in 1 .. Len(order) : order[i] = o)
    /\ [][\A o \in Objects : table.ids[o] # 0 => table'.ids[o] = table.ids[o]]_vars

\* every object has its id and the first of them has just been looked up again
C22_Witness ==
    /\ Len(order) = MaxObjects
    /\ result.obj = order[1]
    /\ result.id = 1

\* C23: in a load every reference to an id that is not in the table comes
\* back as NULL and is taken as the feature being absent (channel of an area,
\* filter of an overlay, channel of a statistic, area of a group, children of
\* a splitter, top-level splitter, id of a decode): the NULL is never
\* dereferenced and the load does not end fatally.
C23_UnresolvedIdTolerated ==
    /\ "NULL" \notin used
    /\ cfgpc # "crashed"

UiArmStarts == armpc["ui"] = "idle" /\ armpc'["ui"] # "idle"

C28_DisarmedNeverHarvested ==
    [][(procpc = "download" /\ procpc' = "signal")
          => \A i \in HarvestTargets : HasPendingWaveforms(scope[i]) => Head(scope[i].born)
      ]_vars

\* C31: with no online instrument and a one-shot arm (SINGLE or FORCED), the
\* harvest step disarms the trigger, for an empty instrument set as for a set of
\* offline instruments.
C31_OfflineOneShotDisarms ==
    [][(procpc = "download" /\ procpc' = "signal" /\ ~HasOnlineScopes /\ m_triggerOneShot)
          => ~m_triggerArmed'
      ]_vars

\* Thread t issues the first arm command of its multi-instrument ArmTrigger call.
FirstArmIssued(t) ==
    /\ nScopes > 1
    /\ armpc[t] = "arm"
    /\ armi[t] = FirstIndex
    /\ armpc'[t] = "wait"

\* C32: when a multi-instrument ArmTrigger issues its first arm command, no
\* instrument of the session is armed and none has a pending waveform.
C32_DrainedAtFirstArm ==
    [][\A t \in Threads :
          FirstArmIssued(t)
            => \A i \in Scopes : ~PeekTriggerArmed(scope[i]) /\ ~HasPendingWaveforms(scope[i])
      ]_vars

\* C33: in a multi-instrument ArmTrigger the loop leaves a secondary i only when
\* i reports armed, and clears i's queue as it does; the arm command to
\* instrument i-1 comes after that; a confirmation timeout issues Stop, then
\* StartSingleTrigger, to the instrument waited for and nothing to any other.
C33_ClearAfterArmed ==
    [][\A t \in Threads :
          /\ (armpc[t] = "wait" /\ armpc'[t] = "arm")
                => /\ armi[t] > 0
                   /\ PeekTriggerArmed(scope[armi[t]])
                   /\ ~HasPendingWaveforms(scope'[armi[t]])
                   /\ armi'[t] = armi[t] - 1
                   /\ armCmd'[t] = armCmd[t]
          /\ \A j \in Scopes :
                (armCmd[t][j] = "none" /\ armCmd'[t][j] # "none" /\ j < nScopes - 1)
                   => (j + 1) \in armSeen[t]
          /\ ArmRetry(t)
                => /\ scope'[armi[t]] = StartSingleTrigger(Stop(scope[armi[t]]))
                   /\ \A j \in ScopeIds \ {armi[t]} : scope'[j] = scope[j]
      ]_vars

\* A secondary has reported armed, its queue is empty, and the loop of that
\* ArmTrigger call is about to arm the primary.
C33_Witness ==
    \E t \in Threads :
        /\ armpc[t] = "arm"
        /\ armi[t] = 0
        /\ 1 \in armSeen[t]
        /\ ~HasPendingWaveforms(scope[1])

\* C34: a sparsev1 buffer shorter than one record (an empty file included)
\* decodes, without a read outside the empty arrays, to an empty waveform that
\* is not marked dense packed.
C34_ShortSparseIsEmpty ==
    \A i \in StreamIds :
        (/\ DecodeAttempted(i)
         /\ stream[i].format = "sparsev1"
         /\ Len(Body(i)) < SampleSize(stream[i].kind)) =>
            /\ wpc[i] # "crashed"
            /\ cap[i] = EmptyCapture

\* ------------------------------------------- claims: RefreshAllFilters, depth
RECURSIVE ChainBelow(_, _)
\* the length of the longest chain of live filter inputs below f, followed for
\* at most n links
ChainBelow(f, n) ==
    LET ins == inputs[f] \cap Filters
    IN  IF n = 0 \/ ins = {}
        THEN 0
        ELSE LET below == {ChainBelow(g, n - 1) : g \in ins}
             IN  1 + CHOOSE x \in below : \A y \in below : y <= x

\* C35: for an acyclic graph every filter lands in the earliest block it can:
\* its block index, counted from 0, is the length of the longest chain of
\* filter inputs below it, and 0 if its inputs are instrument channels, null or
\* filters that are not live instances.
C35_BlockIsChainLength ==
    (Acyclic /\ LevelingDone) =>
        \A f \in Filters : BlocksOf(f) = {ChainBelow(f, nFilters) + 1}

\* The leveling is done on a graph where a filter has inputs at two depths:
\* the longer chain decides its block.
C35_Witness ==
    /\ Acyclic
    /\ LevelingDone
    /\ \E f, g, h \in Filters :
          /\ {g, h} \subseteq inputs[f]
          /\ ChainBelow(g, nFilters) = 0
          /\ ChainBelow(h, nFilters) = 1
          /\ BlocksOf(f) = {3}

\* ------------------- the trigger flags, one step per write (ArmTrigger, OnStop,
\* CloseSession, DownloadWaveforms, the free-run timeout branch)
\* armpc[t] is here the position of thread t in its call: "idle", "flags"
\* (ArmTrigger, before line 3375), "loops" (ArmTrigger, before line 3457),
\* "stop" (OnStop, before line 3344), "closing" (CloseSession, before line 723),
\* "start" (the timeout branch, before its OnStart).
flagRest == << nScopes, offline, scope, twait, primaryAge, armi, waited, armCmd, armSeen,
               waveformReady, waveformProcessed, stopped >>

\* Thread t may begin a call: the UI thread from its main loop, the processing
\* thread's ArmTrigger from the timeout branch.
MayArm(t) == IF t = "ui" THEN armpc[t] = "idle" /\ uipc = "idle" ELSE armpc[t] = "start"

\* ArmTrigger, lines 3357-3365: m_triggerOneShot; with no online instrument
\* m_triggerArmed and return.
FlagArmEnter(t, type) ==
    /\ MayArm(t)
    /\ (t = "proc") => type = "NORMAL"
    /\ m_triggerOneShot' = OneShot(type)
    /\ armType' = [armType EXCEPT ![t] = type]
    /\ IF ~HasOnlineScopes
       THEN /\ m_triggerArmed' = TRUE
            /\ armpc' = [armpc EXCEPT ![t] = "idle"]
            /\ procpc' = IF t = "proc" THEN "poll" ELSE procpc
       ELSE /\ armpc' = [armpc EXCEPT ![t] = "flags"]
            /\ UNCHANGED << m_triggerArmed, procpc >>
    /\ UNCHANGED << m_multiScopeFreeRun, uipc, flagRest, filterVars, loadVars, idVars, recentVars >>

\* ArmTrigger, lines 3375-3379: m_multiScopeFreeRun.
FlagArmFreeRun(t) ==
    /\ armpc[t] = "flags"
    /\ m_multiScopeFreeRun' = FreeRun(armType[t])
    /\ armpc' = [armpc EXCEPT ![t] = "loops"]
    /\ UNCHANGED << m_triggerArmed, m_triggerOneShot, armType, uipc, procpc,
                    flagRest, filterVars, loadVars, idVars, recentVars >>

\* ArmTrigger, lines 3381-3457: the loops over the instruments, which end only
\* if every secondary reports armed, then m_triggerArmed.
FlagArmArmed(t) ==
    /\ armpc[t] = "loops"
    /\ \A i \in Scopes : i > 0 => ~offline[i]
    /\ m_triggerArmed' = TRUE
    /\ armpc' = [armpc EXCEPT ![t] = "idle"]
    /\ procpc' = IF t = "proc" THEN "poll" ELSE procpc
    /\ UNCHANGED << m_multiScopeFreeRun, m_triggerOneShot, armType, uipc,
                    flagRest, filterVars, loadVars, idVars, recentVars >>

\* OnStop, line 3343, called by the user (UI thread).
FlagStopEnter ==
    /\ uipc = "idle"
    /\ armpc["ui"] = "idle"
    /\ m_multiScopeFreeRun' = FALSE
    /\ armpc' = [armpc EXCEPT !["ui"] = "stop"]
    /\ UNCHANGED << m_triggerArmed, m_triggerOneShot, armType, uipc, procpc,
                    flagRest, filterVars, loadVars, idVars, recentVars >>

\* CloseSession, lines 713-718: its OnStop begins.
FlagCloseEnter ==
    /\ uipc = "idle"
    /\ armpc["ui"] = "idle"
    /\ m_multiScopeFreeRun' = FALSE
    /\ armpc' = [armpc EXCEPT !["ui"] = "stop"]
    /\ uipc' = "close"
    /\ UNCHANGED << m_triggerArmed, m_triggerOneShot, armType, procpc,
                    flagRest, filterVars, loadVars, idVars, recentVars >>

\* CheckForPendingWaveforms, lines 3038-3053: in free-run mode with an online
\* instrument the timeout branch may be taken (the instruments and the clock
\* decide); its OnStop begins.
FlagFault ==
    /\ procpc = "poll"
    /\ armpc["proc"] = "idle"
    /\ HasOnlineScopes
    /\ m_multiScopeFreeRun
    /\ m_multiScopeFreeRun' = FALSE
    /\ armpc' = [armpc EXCEPT !["proc"] = "stop"]
    /\ procpc' = "recover"
    /\ UNCHANGED << m_triggerArmed, m_triggerOneShot, armType, uipc,
                    flagRest, filterVars, loadVars, idVars, recentVars >>

\* OnStop, line 3344 and its loop; then back to the caller.
FlagStopArmed(t) ==
    /\ armpc[t] = "stop"
    /\ m_triggerArmed' = FALSE
    /\ armpc' = [armpc EXCEPT ![t] =
                    IF t = "proc" THEN "start" ELSE IF uipc = "close" THEN "closing" ELSE "idle"]
    /\ UNCHANGED << m_multiScopeFreeRun, m_triggerOneShot, armType, uipc, procpc,
                    flagRest, filterVars, loadVars, idVars, recentVars >>

\* CloseSession, line 723.
FlagCloseDisarm ==
    /\ armpc["ui"] = "closing"
    /\ m_triggerArmed' = FALSE
    /\ armpc' = [armpc EXCEPT !["ui"] = "idle"]
    /\ uipc' = "idle"
    /\ UNCHANGED << m_multiScopeFreeRun, m_triggerOneShot, armType, procpc,
                    flagRest, filterVars, loadVars, idVars, recentVars >>

\* DownloadWaveforms, lines 3102-3104, after CheckForPendingWaveforms returned
\* true: with no online instrument that is m_triggerArmed.
FlagDownload ==
    /\ procpc = "poll"
    /\ armpc["proc"] = "idle"
    /\ HasOnlineScopes \/ m_triggerArmed
    /\ m_triggerArmed' = IF nScopes = 0 /\ m_triggerOneShot THEN FALSE ELSE m_triggerArmed
    /\ UNCHANGED << m_multiScopeFreeRun, m_triggerOneShot, armType, armpc, uipc, procpc,
                    flagRest, filterVars, loadVars, idVars, recentVars >>

FlagNext ==
    \/ \E t \in Threads, type \in Kinds : FlagArmEnter(t, type)
    \/ \E t \in Threads : FlagArmFreeRun(t)
    \/ \E t \in Threads : FlagArmArmed(t)
    \/ FlagStopEnter
    \/ FlagCloseEnter
    \/ FlagFault
    \/ \E t \in Threads : FlagStopArmed(t)
    \/ FlagCloseDisarm
    \/ FlagDownload

\* A window with its instruments, nothing armed, both threads between calls.
FlagInit ==
    /\ nScopes \in 0 .. MaxScopes
    /\ offline \in [ScopeIds -> BOOLEAN]
    /\ \A i \in ScopeIds : i >= nScopes => ~offline[i]
    /\ scope = [i \in ScopeIds |-> IdleScope]
    /\ m_triggerArmed = FALSE
    /\ m_triggerOneShot = FALSE
    /\ m_multiScopeFreeRun = FALSE
    /\ twait = -1
    /\ primaryAge = -1
    /\ armpc = [t \in Threads |-> "idle"]
    /\ armi = [t \in Threads |-> 0]
    /\ armType = [t \in Threads |-> "none"]
    /\ waited = [t \in Threads |-> 0]
    /\ armCmd = [t \in Threads |-> NoCmds]
    /\ armSeen = [t \in Threads |-> {}]
    /\ uipc = "idle"
    /\ procpc = "poll"
    /\ waveformReady = FALSE
    /\ waveformProcessed = FALSE
    /\ stopped = FALSE
    /\ FilterAtRest
    /\ IdAtRest
    /\ RecentAtRest
    /\ LoadAtRest

FlagSpec == FlagInit /\ [][FlagNext]_vars

\* No call is in progress on either thread.
NoCallInProgress ==
    /\ \A t \in Threads : armpc[t] = "idle"
    /\ uipc = "idle"
    /\ procpc = "poll"

\* C36: between complete calls of ArmTrigger, OnStop, CloseSession and
\* DownloadWaveforms, m_multiScopeFreeRun implies that the trigger is armed,
\* that the session has more than one instrument and that the arm was not
\* one-shot.
C36_FreeRunImplies ==
    (NoCallInProgress /\ m_multiScopeFreeRun) =>
        /\ m_triggerArmed
        /\ nScopes > 1
        /\ ~m_triggerOneShot

\* -------------------------------- claims: AddCurrentToRecentlyUsedList
\* C37: AddCurrentToRecentlyUsedList returns, and with at most
\* maxRecentInstruments entries in the list, whatever the list held before and
\* however many instruments are connected.
C37_RecentListTrimmed ==
    /\ (rupc = "add") ~> (rupc = "done")
    /\ [](rupc = "done" => Size(m_recentlyUsed) <= maxRecentInstruments)

====
